---------------------------- MODULE Spec2Model ----------------------------
(***************************************************************************)
(* State-machine model of the hekstradehub command-line scripts.  Each     *)
(* behaviour is one run of one script, chosen in Init by `script'.         *)
(*                                                                         *)
(* Prices, stops and ATR values are integers in points, 100 points to one  *)
(* price tick, so that every product the code computes with the factors    *)
(* 0.01, 0.5, 1.0, 1.5, 2.0, 2.5 and the tenths of the smart multiplier is *)
(* exact.  A position's side does not change while a script runs.          *)
(***************************************************************************)
EXTENDS Integers, Sequences, FiniteSets, TLC

\* ---------------------------------------------------------------- bounds
MaxPrice == 4
MaxAtr == 2
MaxCloseAttempts == 2
MaxContracts == 3
MaxOrders == 4

Prices == {100 * k : k \in 1..MaxPrice}
Atrs == {100 * k : k \in 0..MaxAtr}
Sides == {"LONG", "SHORT"}

\* ------------------------------------------------------ program constants
atr_multiplier == 2
percent_trail == 2

VARIABLES
    script,          \* which script this run executes
    pc,              \* "start" | "loop" | "done"
    side,            \* position['side'] / self.side
    stop_type,       \* trailing_stop.py: 'ATR' | 'PERCENT'
    min_trail_distance_pct, \* dynamic_trailing_stop.py --trail, in tenths of a percent
    entry,           \* entry price of the position
    initial_stop,    \* AutoTrailingStop.initial_stop
    stop_set,        \* a stop level exists (DynamicTrailingStop.stop_price is not None)
    stop_price,      \* stop_price / self.current_stop / self.stop_price
    highest_price,
    lowest_price,
    stop_distance,
    trailing_active, \* AutoTrailingStop.trailing_active / DynamicTrailingStop.trailing_activated
    initial_contracts, \* AutoTrailingManager.initial_contracts
    tp1_hit,         \* AutoTrailingManager.tp1_hit
    trailing_started, \* AutoTrailingManager.trailing_started
    env_file,        \* whether .env exists
    journal_file,    \* trade_journal.json: whether it exists and the entries it holds
    trades,          \* per TradeJournal instance: whether __init__ has run, and self.trades
    clock,           \* time.time(), in hundreds of seconds
    last_alert_time, \* monitor_position: last_alert_time, in hundreds of seconds
    telegram,        \* monitor_position: send_alerts, that is whether telegram is set
    credentials,     \* KUCOIN_API_KEY / _SECRET / _PASSPHRASE as the environment holds them
    checked,         \* the checks of the credentials this run has made
    results,         \* opportunity_watcher: the coins the last scan_market scored
    previous_opportunities, \* opportunity_watcher: coins at 70 or more in the scan before
    confirmed,       \* the operator has typed 'yes' at a confirmation prompt of this run
    interrupted,     \* the operator has pressed Ctrl+C (KeyboardInterrupt was raised)
    orders,          \* orders sent to the exchange, in order
    out,             \* kinds of message printed or logged so far
    last             \* what the last loop iteration observed and did

vars == <<script, pc, side, stop_type, min_trail_distance_pct, entry, initial_stop, stop_set, stop_price,
          highest_price, lowest_price, stop_distance, trailing_active, initial_contracts,
          tp1_hit, trailing_started, env_file, journal_file, trades,
          clock, last_alert_time, telegram,
          credentials, checked, results,
          previous_opportunities, confirmed, interrupted, orders, out, last>>

\* monitor_position: alert_cooldown = 300 seconds, in hundreds of seconds
alert_cooldown == 3
MaxClock == 12

\* No trade_journal.json in the working directory.
NoFile == [exists |-> FALSE, entries |-> <<>>]

NoPoll == [pos |-> "unpolled", fetch_error |-> FALSE, price |-> 0, hit |-> FALSE, closed |-> FALSE]

Max2(a, b) == IF a >= b THEN a ELSE b
Min2(a, b) == IF a <= b THEN a ELSE b

\* The record a loop iteration leaves in `last'.
Observed(pos, ferr, price, hit, closed) ==
    [pos |-> pos, fetch_error |-> ferr, price |-> price, hit |-> hit, closed |-> closed]

CloseOrder(ok) == [kind |-> "close", ok |-> ok]


\* ------------------------------------------------- what the exchange returns
\* get_active_position / fetch_positions: a position, none, or a failed request.
PosFetches == {"pos", "none", "error"}
AtrFetches == {[ok |-> TRUE, atr |-> a] : a \in Atrs} \cup {[ok |-> FALSE, atr |-> 0]}

\* ------------------------------------------------ shared stop arithmetic
\* "if new_stop > stop_price: stop_price = new_stop"
RaiseStopLoose(new_stop, stop) == new_stop
RaiseStop(new_stop, stop) == IF new_stop > stop THEN new_stop ELSE stop

\* "if new_stop < stop_price: stop_price = new_stop"
LowerStopLoose(new_stop, stop) == new_stop
LowerStop(new_stop, stop) == IF new_stop < stop THEN new_stop ELSE stop

\* "if current_price <= stop_price" (LONG) / "if current_price >= stop_price" (SHORT)
StopHit(sd, price, stop) == IF sd = "LONG" THEN price <= stop ELSE price >= stop

\* What run_trailing_stop / run_smart_trailing_stop print after close_position.
CloseReport(ok) == IF ok THEN {"closed_ok"} ELSE {"order_failed", "act_manually"}

\* ------------------------------------------- scripts/trailing_stop.py
\* fetch_positions swallows every failure and returns []: get_active_position
\* then returns None exactly as for a closed position.
get_active_position(pf) == IF pf = "pos" THEN "pos" ELSE "none"

\* calculate_atr: "except: return 0.0"
calculate_atr(af) == IF af.ok THEN af.atr ELSE 0

\* stop_distance at start: atr * atr_multiplier, or current_price * (percent_trail / 100)
InitialDistance(styp, atr, price) ==
    IF styp = "ATR" THEN atr * atr_multiplier ELSE (price * percent_trail) \div 100

\* One pass of the "update highest/lowest and trailing stop" block.
TrailingStopUpdate(sd, styp, price, af, hi, lo, stop, dist) ==
    LET ndist == IF styp = "ATR" THEN calculate_atr(af) * atr_multiplier ELSE dist
    IN  IF sd = "LONG"
        THEN IF price > hi
             THEN [hi |-> price, lo |-> lo, dist |-> ndist, stop |-> RaiseStop(price - ndist, stop)]
             ELSE [hi |-> hi, lo |-> lo, dist |-> dist, stop |-> stop]
        ELSE IF price < lo
             THEN [hi |-> hi, lo |-> price, dist |-> ndist, stop |-> LowerStop(price + ndist, stop)]
             ELSE [hi |-> hi, lo |-> lo, dist |-> dist, stop |-> stop]

\* On a stop hit the basic and smart loops call close_position once and break.
CloseOnHitNever(hit, ok, ords) == ords
CloseOnHit(hit, ok, ords) == IF hit THEN Append(ords, CloseOrder(ok)) ELSE ords

\* A poll that finds no position: "Position closed or not found. Exiting monitor." / break
NoPositionOrdersClose(ords) == Append(ords, CloseOrder(TRUE))
NoPositionOrders(ords) == ords

ScriptUnchanged ==
    UNCHANGED <<script, side, stop_type, entry, initial_stop, min_trail_distance_pct,
                initial_contracts, tp1_hit, trailing_started, env_file, journal_file, trades,
                clock, last_alert_time, telegram,
                credentials, checked,
                results, previous_opportunities, confirmed>>

ParamsUnchanged == ScriptUnchanged /\ UNCHANGED interrupted

\* run_trailing_stop, from its first line to the start of the loop.
TrailingStopStart ==
    /\ script = "trailing_stop" /\ pc = "start"
    /\ \/ \E pf \in {"none", "error"} :
             /\ get_active_position(pf) = "none"
             /\ pc' = "done"
             /\ out' = out \cup {"no_active_position"} \cup (IF pf = "error" THEN {"fetch_error"} ELSE {})
             /\ UNCHANGED <<stop_set, stop_price, highest_price, lowest_price, stop_distance>>
       \/ /\ get_active_position("pos") = "pos"
          /\ pc' = "done"
          /\ out' = out \cup {"fetch_error", "no_price"}
          /\ UNCHANGED <<stop_set, stop_price, highest_price, lowest_price, stop_distance>>
       \/ \E af \in AtrFetches, price \in Prices :
             LET atr0 == calculate_atr(af)
                 atr  == IF atr0 = 0 THEN entry \div 100 ELSE atr0
                 dist == InitialDistance(stop_type, atr, price)
             IN  /\ get_active_position("pos") = "pos"
                 /\ pc' = "loop"
                 /\ stop_set' = TRUE
                 /\ stop_distance' = dist
                 /\ stop_price' = IF side = "LONG" THEN price - dist ELSE price + dist
                 /\ highest_price' = IF side = "LONG" THEN price ELSE highest_price
                 /\ lowest_price' = IF side = "LONG" THEN lowest_price ELSE price
                 /\ out' = out
    /\ UNCHANGED <<trailing_active, orders, last>>
    /\ ParamsUnchanged

\* "if current_price > highest_price" (LONG) / "if current_price < lowest_price" (SHORT)
NewExtreme(sd, price, hi, lo) == IF sd = "LONG" THEN price > hi ELSE price < lo

\* An iteration of run_trailing_stop's loop that got the position and a price:
\* the stop update, the stop-hit check, close_position and break on a hit.
TrailingStopTick(price, af) ==
    LET u == TrailingStopUpdate(side, stop_type, price, af, highest_price,
                                lowest_price, stop_price, stop_distance)
        hit == StopHit(side, price, u.stop)
        atr_failed == /\ stop_type = "ATR" /\ ~af.ok
                      /\ NewExtreme(side, price, highest_price, lowest_price)
    IN  \E ok \in (IF hit THEN BOOLEAN ELSE {TRUE}) :
           LET ords == CloseOnHit(hit, ok, orders)
           IN  /\ get_active_position("pos") = "pos"
               /\ stop_price' = u.stop
               /\ highest_price' = u.hi
               /\ lowest_price' = u.lo
               /\ stop_distance' = u.dist
               /\ orders' = ords
               /\ pc' = IF hit THEN "done" ELSE "loop"
               /\ out' = out \cup (IF hit THEN {"stop_triggered"} \cup CloseReport(ok)
                                          ELSE {})
               /\ last' = Observed("pos", atr_failed, price, hit, ords # orders)

\* One iteration of run_trailing_stop's "while True".
TrailingStopPoll ==
    /\ script = "trailing_stop" /\ pc = "loop"
    /\ \/ \E pf \in {"none", "error"} :
             /\ get_active_position(pf) = "none"
             /\ pc' = "done"
             /\ out' = out \cup {"position_closed"} \cup (IF pf = "error" THEN {"fetch_error"} ELSE {})
             /\ orders' = NoPositionOrders(orders)
             /\ last' = Observed("none", pf = "error", 0, FALSE, FALSE)
             /\ UNCHANGED <<stop_price, highest_price, lowest_price, stop_distance>>
       \/ /\ get_active_position("pos") = "pos"
          /\ pc' = "loop"
          /\ out' = out \cup {"fetch_error"}
          /\ last' = Observed("pos", TRUE, 0, FALSE, FALSE)
          /\ UNCHANGED <<orders, stop_price, highest_price, lowest_price, stop_distance>>
       \/ \E price \in Prices, af \in AtrFetches : TrailingStopTick(price, af)
    /\ UNCHANGED <<stop_set, trailing_active>>
    /\ ParamsUnchanged

\* Ctrl+C while calculate_atr runs inside the loop: its bare "except:" catches the
\* KeyboardInterrupt and returns 0.0, and the iteration goes on with that ATR.
TrailingStopInterruptedInAtr ==
    /\ script = "trailing_stop" /\ pc = "loop" /\ stop_type = "ATR"
    /\ \E price \in Prices :
         /\ NewExtreme(side, price, highest_price, lowest_price)
         /\ TrailingStopTick(price, [ok |-> FALSE, atr |-> 0])
    /\ interrupted' = TRUE
    /\ UNCHANGED <<stop_set, trailing_active>>
    /\ ScriptUnchanged

\* ------------------------------------------- scripts/smart_trailing_stop.py
\* The indicator readings one fetch can produce.  macd_hist is in hundredths;
\* price, vwap and atr are in points.
AdxValues == {15, 35}
TrendValues == {"UP", "DOWN"}
Indicators ==
    [price : Prices, atr : Atrs, adx : AdxValues, rsi : {50}, macd_hist : {0},
     stoch_k : {50}, vwap : {250}, obv_slope : {0}, trend : TrendValues]

Abs(x) == IF x < 0 THEN -x ELSE x

\* calculate_smart_stop_distance: the multiplier in tenths.
SmartAdxStrongOnly(ind) == IF ind.adx > 30 THEN 5 ELSE 0
SmartAdx(ind) == IF ind.adx > 30 THEN 5 ELSE IF ind.adx < 20 THEN -5 ELSE 0
SmartWarningsLong(ind) ==
      (IF ind.rsi > 70 THEN 5 ELSE IF ind.rsi > 60 THEN 3 ELSE 0)
    + (IF ind.macd_hist < 0 THEN 4 ELSE IF Abs(ind.macd_hist) < 5 THEN 2 ELSE 0)
    + (IF ind.stoch_k > 80 THEN 3 ELSE 0)
    + (IF ind.price < ind.vwap THEN 4 ELSE 0)
    + (IF ind.obv_slope < 0 THEN 3 ELSE 0)
    + (IF ind.trend = "DOWN" THEN 6 ELSE 0)
SmartWarningsShort(ind) ==
      (IF ind.rsi < 30 THEN 5 ELSE IF ind.rsi < 40 THEN 3 ELSE 0)
    + (IF ind.macd_hist > 0 THEN 4 ELSE IF Abs(ind.macd_hist) < 5 THEN 2 ELSE 0)
    + (IF ind.stoch_k < 20 THEN 3 ELSE 0)
    + (IF ind.price > ind.vwap THEN 4 ELSE 0)
    + (IF ind.obv_slope > 0 THEN 3 ELSE 0)
    + (IF ind.trend = "UP" THEN 6 ELSE 0)
SmartUnclamped(ind, sd) ==
    20 + SmartAdx(ind) - (IF sd = "LONG" THEN SmartWarningsLong(ind) ELSE SmartWarningsShort(ind))
SmartNoClamp(ind, sd) == SmartUnclamped(ind, sd)
calculate_smart_stop_distance(ind, sd) == Max2(8, Min2(35, SmartUnclamped(ind, sd)))

\* stop_distance = indicators['atr'] * multiplier
SmartDistance(ind, sd) == (ind.atr * calculate_smart_stop_distance(ind, sd)) \div 10

\* One pass of run_smart_trailing_stop's "update trailing stop" block.
SmartUpdate(sd, ind, hi, lo, stop) ==
    LET price == ind.price
        dist == SmartDistance(ind, sd)
    IN  IF sd = "LONG"
        THEN IF price > hi
             THEN [hi |-> price, lo |-> lo, stop |-> RaiseStop(price - dist, stop)]
             ELSE [hi |-> hi, lo |-> lo, stop |-> stop]
        ELSE IF price < lo
             THEN [hi |-> hi, lo |-> price, stop |-> LowerStop(price + dist, stop)]
             ELSE [hi |-> hi, lo |-> lo, stop |-> stop]

\* run_smart_trailing_stop, from its first line to the start of the loop.
SmartStart ==
    /\ script = "smart_trailing_stop" /\ pc = "start"
    /\ \/ \E pf \in {"none", "error"} :
             /\ get_active_position(pf) = "none"
             /\ pc' = "done"
             /\ out' = out \cup {"no_active_position"} \cup (IF pf = "error" THEN {"fetch_error"} ELSE {})
             /\ UNCHANGED <<stop_set, stop_price, highest_price, lowest_price>>
       \/ /\ get_active_position("pos") = "pos"
          /\ pc' = "done"
          /\ out' = out \cup {"fetch_error", "no_indicators"}
          /\ UNCHANGED <<stop_set, stop_price, highest_price, lowest_price>>
       \/ \E ind \in Indicators :
             LET dist == SmartDistance(ind, side)
             IN  /\ get_active_position("pos") = "pos"
                 /\ pc' = "loop"
                 /\ stop_set' = TRUE
                 /\ stop_price' = IF side = "LONG" THEN ind.price - dist ELSE ind.price + dist
                 /\ highest_price' = IF side = "LONG" THEN ind.price ELSE highest_price
                 /\ lowest_price' = IF side = "LONG" THEN lowest_price ELSE ind.price
                 /\ out' = out
    /\ UNCHANGED <<stop_distance, trailing_active, orders, last>>
    /\ ParamsUnchanged

\* One iteration of run_smart_trailing_stop's "while True".
SmartPoll ==
    /\ script = "smart_trailing_stop" /\ pc = "loop"
    /\ \/ \E pf \in {"none", "error"} :
             /\ get_active_position(pf) = "none"
             /\ pc' = "done"
             /\ out' = out \cup {"position_closed"} \cup (IF pf = "error" THEN {"fetch_error"} ELSE {})
             /\ orders' = NoPositionOrders(orders)
             /\ last' = Observed("none", pf = "error", 0, FALSE, FALSE)
             /\ UNCHANGED <<stop_price, highest_price, lowest_price>>
       \/ /\ get_active_position("pos") = "pos"
          /\ pc' = "loop"
          /\ out' = out \cup {"fetch_error"}
          /\ last' = Observed("pos", TRUE, 0, FALSE, FALSE)
          /\ UNCHANGED <<orders, stop_price, highest_price, lowest_price>>
       \/ \E ind \in Indicators :
             LET u == SmartUpdate(side, ind, highest_price, lowest_price, stop_price)
                 hit == StopHit(side, ind.price, u.stop)
             IN  \E ok \in (IF hit THEN BOOLEAN ELSE {TRUE}) :
                    LET ords == CloseOnHit(hit, ok, orders)
                    IN  /\ get_active_position("pos") = "pos"
                        /\ stop_price' = u.stop
                        /\ highest_price' = u.hi
                        /\ lowest_price' = u.lo
                        /\ orders' = ords
                        /\ pc' = IF hit THEN "done" ELSE "loop"
                        /\ out' = out \cup (IF hit THEN {"stop_triggered"} \cup CloseReport(ok) ELSE {})
                        /\ last' = Observed("pos", FALSE, ind.price, hit, ords # orders)
    /\ UNCHANGED <<stop_set, stop_distance, trailing_active>>
    /\ ParamsUnchanged

\* ------------------------------------------- scripts/dynamic_trailing_stop.py
activation_profit_pct == 5
PnlPcts == {0, 10}
\* The last row of the indicators calculate_dynamic_stop derives from the candles.
DynamicReadings ==
    {r \in [atr : Atrs, adx : {15, 22, 30}, bb_upper : Prices, bb_lower : Prices, ema20 : {200}] :
        r.bb_lower < r.bb_upper}

Max3(a, b, c) == Max2(a, Max2(b, c))
Min3(a, b, c) == Min2(a, Min2(b, c))

\* calculate_dynamic_stop: suggested_stop
calculate_dynamic_stop(sd, price, r) ==
    LET atr_mult == IF r.adx > 25 THEN 15 ELSE IF r.adx > 20 THEN 20 ELSE 25
        atr_part == (r.atr * atr_mult) \div 10
        buffer == (r.atr * 5) \div 10
    IN  IF sd = "SHORT"
        THEN LET s == Min3(price + atr_part, r.bb_upper, r.ema20 + buffer)
             IN  IF s <= price THEN price + r.atr ELSE s
        ELSE LET s == Max3(price - atr_part, r.bb_lower, r.ema20 - buffer)
             IN  IF s >= price THEN price - r.atr ELSE s

\* "improvement >= min_trail_distance_pct", improvement = diff / stop * 100 with
\* diff > 0; the division raises ZeroDivisionError for stop = 0 (see DynamicMove).
ImprovementEnough(diff, stop, min_pct) == stop > 0 /\ diff * 1000 >= min_pct * stop

\* The "update stop if in profit and trailing is active" block: the new stop,
\* and whether computing the improvement divided by zero.
DynamicMove(sd, suggested, stop, min_pct) ==
    LET better == IF sd = "SHORT" THEN suggested < stop ELSE suggested > stop
        diff == IF sd = "SHORT" THEN stop - suggested ELSE suggested - stop
    IN  IF ~better THEN [stop |-> stop, raised |-> FALSE]
        ELSE IF stop = 0 THEN [stop |-> stop, raised |-> TRUE]
        ELSE IF ImprovementEnough(diff, stop, min_pct) THEN [stop |-> suggested, raised |-> FALSE]
        ELSE [stop |-> stop, raised |-> FALSE]

\* DynamicTrailingStop.close_position prints the failure and returns False.
DynamicCloseReport(ok) == IF ok THEN {"closed_ok"} ELSE {"order_failed"}

\* "if self.close_position(position): break": a failed close leaves the loop running.
DynamicAfterClose(ok) == IF ok THEN "done" ELSE "loop"

\* DynamicTrailingStop.run up to the loop; get_position is called outside the try.
DynamicStart ==
    /\ script = "dynamic_trailing_stop" /\ pc = "start"
    /\ \E pf \in PosFetches :
         /\ pc' = IF pf = "pos" THEN "loop" ELSE "done"
         /\ out' = out \cup (CASE pf = "pos" -> {}
                               [] pf = "none" -> {"no_active_position"}
                               [] pf = "error" -> {"fetch_error", "traceback"})
    /\ UNCHANGED <<stop_set, stop_price, highest_price, lowest_price, stop_distance,
                   trailing_active, orders, last>>
    /\ ParamsUnchanged

\* One iteration of DynamicTrailingStop.run's "while True", with the handlers
\* around the loop.
DynamicPoll ==
    /\ script = "dynamic_trailing_stop" /\ pc = "loop"
    /\ \/ \E pf \in {"error", "pos"} :
             \* get_position raised, or get_ohlcv raised after a position was read
             /\ pc' = "done"
             /\ out' = out \cup {"fetch_error", "error_printed"}
             /\ last' = Observed(pf, TRUE, 0, FALSE, FALSE)
             /\ UNCHANGED <<orders, stop_set, stop_price, trailing_active>>
       \/ /\ pc' = "done"
          /\ out' = out \cup {"position_closed"}
          /\ orders' = NoPositionOrders(orders)
          /\ last' = Observed("none", FALSE, 0, FALSE, FALSE)
          /\ UNCHANGED <<stop_set, stop_price, trailing_active>>
       \/ \E price \in Prices, pnl_pct \in PnlPcts, r \in DynamicReadings :
             LET suggested == calculate_dynamic_stop(side, price, r)
                 activate == ~trailing_active /\ pnl_pct >= activation_profit_pct
                 active == trailing_active \/ activate
                 stop0 == IF activate THEN suggested ELSE stop_price
                 m == DynamicMove(side, suggested, stop0, min_trail_distance_pct)
                 hit == active /\ ~m.raised /\ StopHit(side, price, m.stop)
             IN  \E ok \in (IF hit THEN BOOLEAN ELSE {TRUE}) :
                    /\ hit => Len(orders) < MaxCloseAttempts
                    /\ trailing_active' = active
                    /\ stop_set' = active
                    /\ stop_price' = IF active THEN m.stop ELSE stop_price
                    /\ orders' = IF hit THEN Append(orders, CloseOrder(ok)) ELSE orders
                    /\ pc' = IF active /\ m.raised THEN "done"
                             ELSE IF hit THEN DynamicAfterClose(ok) ELSE "loop"
                    /\ out' = out \cup (IF active /\ m.raised THEN {"error_printed"} ELSE {})
                                  \cup (IF hit THEN {"stop_triggered"} \cup DynamicCloseReport(ok) ELSE {})
                    /\ last' = Observed("pos", FALSE, price, hit, orders' # orders)
    /\ UNCHANGED <<highest_price, lowest_price, stop_distance>>
    /\ ParamsUnchanged

\* ------------------------------------------- automation/auto_trailing_stop.py
trail_activation_r == 15
trail_distance_atr == 10

\* AutoTrailingStop.__init__: self.risk
InitialRisk(sd, ent, istop) == IF sd = "LONG" THEN ent - istop ELSE istop - ent

\* AutoTrailingStop._calculate_activation_price
ActivationPrice(sd, ent, istop) ==
    IF sd = "LONG" THEN ent + (InitialRisk(sd, ent, istop) * trail_activation_r) \div 10
                   ELSE ent - (InitialRisk(sd, ent, istop) * trail_activation_r) \div 10

\* update_stop's activation test
ReachedSwapped(sd, price, act) == IF sd = "LONG" THEN price <= act ELSE price >= act
Reached(sd, price, act) == IF sd = "LONG" THEN price >= act ELSE price <= act

\* AutoTrailingStop.update_stop; af is what _get_atr's fetch returns (None on error)
update_stop(sd, price, af, hi, lo, stop, active, act) ==
    LET nhi == IF sd = "LONG" /\ price > hi THEN price ELSE hi
        nlo == IF sd # "LONG" /\ price < lo THEN price ELSE lo
        nactive == active \/ Reached(sd, price, act)
        trail_distance == (af.atr * trail_distance_atr) \div 10
    IN  [hi |-> nhi, lo |-> nlo, active |-> nactive,
         atr_error |-> nactive /\ ~af.ok,
         stop |-> IF ~nactive \/ ~af.ok THEN stop
                  ELSE IF sd = "LONG" THEN RaiseStop(nhi - trail_distance, stop)
                  ELSE LowerStop(nlo + trail_distance, stop)]

\* monitor on a stop hit: "STOP HIT - Consider manual exit!", no order, break
AutoStopHitClose(hit, ords) == IF hit THEN Append(ords, CloseOrder(TRUE)) ELSE ords
AutoStopHitOrders(hit, ords) == ords

\* One iteration of AutoTrailingStop.monitor's "while True", with the handlers
\* around the loop.
AutoPoll ==
    /\ script = "auto_trailing_stop" /\ pc = "loop"
    /\ \/ /\ pc' = "done"
          /\ out' = out \cup {"fetch_error", "error_logged"}
          /\ last' = Observed("error", TRUE, 0, FALSE, FALSE)
          /\ UNCHANGED <<orders, stop_price, highest_price, lowest_price, trailing_active>>
       \/ /\ pc' = "done"
          /\ out' = out \cup {"position_closed"}
          /\ orders' = NoPositionOrders(orders)
          /\ last' = Observed("none", FALSE, 0, FALSE, FALSE)
          /\ UNCHANGED <<stop_price, highest_price, lowest_price, trailing_active>>
       \/ \E price \in Prices, af \in AtrFetches :
             LET u == update_stop(side, price, af, highest_price, lowest_price, stop_price,
                                  trailing_active, ActivationPrice(side, entry, initial_stop))
                 hit == StopHit(side, price, u.stop)
                 ords == AutoStopHitOrders(hit, orders)
             IN  /\ stop_price' = u.stop
                 /\ highest_price' = u.hi
                 /\ lowest_price' = u.lo
                 /\ trailing_active' = u.active
                 /\ orders' = ords
                 /\ pc' = IF hit THEN "done" ELSE "loop"
                 /\ out' = out \cup (IF u.atr_error THEN {"fetch_error"} ELSE {})
                               \cup (IF hit THEN {"stop_triggered", "consider_manual_exit"} ELSE {})
                 /\ last' = Observed("pos", u.atr_error, price, hit, ords # orders)
    /\ UNCHANGED <<stop_set, stop_distance>>
    /\ ParamsUnchanged

\* ---------------------------------------- automation/auto_trailing_manager.py
\* What one iteration of AutoTrailingManager.monitor read and did: the two position
\* reads (monitor's and check_tp1_hit's), the contracts the second one showed and
\* whether the trailing stop process was launched.
Monitored(pos, pos2, contracts, launched) ==
    [pos |-> pos, pos2 |-> pos2, contracts |-> contracts, launched |-> launched]

\* AutoTrailingManager.get_position: a fetch error is logged and None is returned
ManagerPosition(pf) == IF pf = "pos" THEN "pos" ELSE "none"

\* AutoTrailingManager.check_tp1_hit on its own read of the position
check_tp1_hit(pf, current_contracts, initial, hit) ==
    IF ManagerPosition(pf) = "none" THEN [ret |-> TRUE, tp1_hit |-> hit]
    ELSE IF 10 * current_contracts <= 4 * initial + 10 /\ current_contracts > 0
         THEN [ret |-> TRUE, tp1_hit |-> TRUE]
         ELSE [ret |-> FALSE, tp1_hit |-> hit]

\* AutoTrailingManager.start_trailing_stop: trailing_started only when Popen worked
start_trailing_stop(started, popen_ok) == started \/ popen_ok

\* One iteration of AutoTrailingManager.monitor's "while True".
ManagerPoll ==
    /\ script = "auto_trailing_manager" /\ pc = "loop"
    /\ \/ \E pf \in {"none", "error"} :
             /\ pc' = "done"
             /\ out' = out \cup {"position_closed"}
                           \cup (IF pf = "error" THEN {"fetch_error"} ELSE {})
             /\ last' = Monitored(pf, "unpolled", 0, FALSE)
             /\ UNCHANGED <<tp1_hit, trailing_started>>
       \/ \E pf2 \in PosFetches, c \in 1..MaxContracts, popen_ok \in BOOLEAN :
             LET r == check_tp1_hit(pf2, c, initial_contracts, tp1_hit)
                 launch == r.ret /\ ~trailing_started
             IN  /\ pc' = "loop"
                 /\ tp1_hit' = r.tp1_hit
                 /\ trailing_started' = IF launch THEN start_trailing_stop(trailing_started, popen_ok)
                                        ELSE trailing_started
                 /\ out' = out \cup (IF pf2 = "error" THEN {"fetch_error"} ELSE {})
                               \cup (IF launch /\ ~popen_ok THEN {"start_failed"} ELSE {})
                 /\ last' = Monitored("pos", pf2, IF pf2 = "pos" THEN c ELSE 0,
                                      launch /\ popen_ok)
    /\ UNCHANGED <<script, side, stop_type, entry, initial_stop, min_trail_distance_pct,
                   initial_contracts, env_file, journal_file, trades,
                   clock, last_alert_time, telegram,
                   credentials, checked, stop_set, stop_price,
                   highest_price, lowest_price, stop_distance, trailing_active, orders,
                   results, previous_opportunities, confirmed, interrupted>>

\* ------------------------------------------------- trading/order_manager.py
Order(kind, ok) == [kind |-> kind, ok |-> ok]

\* set_stops_and_tps: the default tp_sizes for one, two or three take profits
tp_sizes(n) == CASE n = 1 -> <<100>> [] n = 2 -> <<60, 40>> [] OTHER -> <<50, 30, 20>>

\* set_stops_and_tps: tp_contracts = int((total_contracts * tp_pct) / 100)
tp_contracts(total, tp_pct) == (total * tp_pct) \div 100

\* place_stop_loss: the first format, then the alternative one when it failed.
\* sl is "ok" (first format accepted), "alt" (only the alternative) or "fail".
place_stop_loss(sl) ==
    CASE sl = "ok" -> [orders |-> <<Order("stop", TRUE)>>, out |-> {"stop_placed"}]
      [] sl = "alt" -> [orders |-> <<Order("stop", FALSE), Order("stop_alt", TRUE)>>,
                        out |-> {"order_failed", "stop_placed"}]
      [] OTHER -> [orders |-> <<Order("stop", FALSE), Order("stop_alt", FALSE)>>,
                   out |-> {"order_failed"}]

\* place_take_profit for every take profit whose tp_contracts is positive
place_take_profits(total, n, tpres) ==
    LET idx == SelectSeq([i \in 1..n |-> i],
                         LAMBDA i : tp_contracts(total, tp_sizes(n)[i]) > 0)
    IN  [orders |-> [j \in 1..Len(idx) |-> Order("tp", tpres[idx[j]])],
         out |-> IF \E j \in 1..Len(idx) : ~tpres[idx[j]] THEN {"order_failed"} ELSE {}]

\* KuCoinOrderManager.set_stops_and_tps
SetStopsAndTps ==
    /\ script = "order_manager" /\ pc = "start"
    /\ pc' = "done"
    /\ \/ \E pf \in {"none", "error"} :
             /\ out' = out \cup {"no_position"}
                           \cup (IF pf = "error" THEN {"fetch_error"} ELSE {})
             /\ UNCHANGED orders
       \/ \E total \in 1..MaxContracts, n \in 1..3, sl \in {"ok", "alt", "fail"},
             tpres \in [1..3 -> BOOLEAN] :
             LET s == place_stop_loss(sl)
                 t == place_take_profits(total, n, tpres)
             IN  /\ orders' = orders \o s.orders \o t.orders
                 /\ out' = out \cup s.out \cup t.out \cup {"all_orders_placed"}
    /\ UNCHANGED <<script, side, stop_type, entry, initial_stop, min_trail_distance_pct,
                   initial_contracts, tp1_hit, trailing_started, env_file, journal_file, trades,
                   clock, last_alert_time, telegram,
                   credentials,
                   checked, stop_set, stop_price, highest_price, lowest_price,
                   stop_distance, trailing_active, last, results, previous_opportunities,
                   confirmed, interrupted>>

\* ------------------------------------------ trader.py, trading/open_long.py
CredentialValues == {"", "placeholder", "real"}
Credentials == [key : CredentialValues, secret : CredentialValues, passphrase : CredentialValues]
RealCredentials == [key |-> "real", secret |-> "real", passphrase |-> "real"]

\* The exchange serves a private request only when it is signed with real credentials.
Authenticated(c) == c = RealCredentials

\* trader.check_api_configured: .env exists and the three variables are non-empty
check_api_configured(envf, c) == envf /\ c.key # "" /\ c.secret # "" /\ c.passphrase # ""

\* open_long_position: the command line it hands to subprocess.Popen
trailing_cmd ==
    <<"python3", "auto_trailing_manager.py", "symbol", "LONG", "fill_price", "tp1_price",
      "tp2_price">>

\* auto_trailing_manager.main, run as "python3 script args...": with fewer than
\* eight entries in sys.argv it prints the usage text and returns, otherwise it
\* builds the AutoTrailingManager and calls monitor.  What it writes goes to
\* the log file open_long_position opened for it.
manager_main(cmd) ==
    LET argv == Tail(cmd)
    IN  IF Len(argv) < 8 THEN {"manager_usage"} ELSE {"manager_monitoring"}

\* open_long_position: what it sends and prints.  bal is what fetch_balance gave
\* ("ok", "low" for less than 1 USDT, "error"), confirmation is the typed answer.
open_long_position(c, bal, confirmation, entry_ok, sl_ok, tp_ok) ==
    IF ~Authenticated(c) \/ bal = "error"
    THEN [orders |-> <<>>, out |-> {"error_printed"}, confirmed |-> FALSE]
    ELSE IF bal = "low"
    THEN [orders |-> <<>>, out |-> {"insufficient_balance"}, confirmed |-> FALSE]
    ELSE IF confirmation # "yes"
    THEN [orders |-> <<>>, out |-> {"trade_cancelled"}, confirmed |-> FALSE]
    ELSE IF ~entry_ok
    THEN [orders |-> <<Order("entry", FALSE)>>, out |-> {"error_printed"}, confirmed |-> TRUE]
    ELSE [orders |-> <<Order("entry", TRUE), Order("stop", sl_ok), Order("tp", tp_ok)>>,
          out |-> {"position_opened", "manager_started"} \cup manager_main(trailing_cmd)
                  \cup (IF sl_ok /\ tp_ok THEN {} ELSE {"order_failed", "act_manually"}),
          confirmed |-> TRUE]

OpenLongRuns ==
    {open_long_position(credentials, bal, confirmation, entry_ok, sl_ok, tp_ok) :
        bal \in {"ok", "low", "error"}, confirmation \in {"yes", "no"},
        entry_ok \in BOOLEAN, sl_ok \in BOOLEAN, tp_ok \in BOOLEAN}

\* python trading/open_long.py
OpenLong ==
    /\ script = "open_long" /\ pc = "start"
    /\ pc' = "done"
    /\ \E r \in OpenLongRuns :
         /\ orders' = orders \o r.orders
         /\ out' = out \cup r.out
         /\ confirmed' = r.confirmed
    /\ UNCHANGED <<script, side, stop_type, entry, initial_stop, min_trail_distance_pct,
                   initial_contracts, tp1_hit, trailing_started, env_file, journal_file, trades,
                   clock, last_alert_time, telegram,
                   credentials,
                   checked, stop_set, stop_price, highest_price, lowest_price,
                   stop_distance, trailing_active, last, results, previous_opportunities,
                   interrupted>>

\* One round of trader.main's menu loop: "0" exits, "3" runs trading/open_long.py
\* when check_api_configured passed, anything else here is an invalid choice.
TraderMenu ==
    /\ script = "trader" /\ pc = "menu"
    /\ checked' = checked \cup {"presence"}
    /\ \E choice \in {"0", "3", "X"} :
         LET api_ok == check_api_configured(env_file, credentials)
         IN  CASE choice = "0" ->
                    /\ pc' = "done"
                    /\ UNCHANGED <<orders, out, confirmed>>
               [] choice = "3" /\ ~api_ok ->
                    /\ pc' = "menu"
                    /\ out' = out \cup {"api_credentials_required"}
                    /\ UNCHANGED <<orders, confirmed>>
               [] choice = "3" /\ api_ok ->
                    /\ Len(orders) + 3 <= MaxOrders
                    /\ pc' = "menu"
                    /\ \E r \in OpenLongRuns :
                         /\ orders' = orders \o r.orders
                         /\ out' = out \cup {"open_long_started"} \cup r.out
                         /\ confirmed' = r.confirmed
               [] OTHER ->
                    /\ pc' = "menu"
                    /\ out' = out \cup {"invalid_choice"}
                    /\ UNCHANGED <<orders, confirmed>>
    /\ UNCHANGED <<script, side, stop_type, entry, initial_stop, min_trail_distance_pct,
                   initial_contracts, tp1_hit, trailing_started, env_file, journal_file, trades,
                   clock, last_alert_time, telegram,
                   credentials,
                   stop_set, stop_price, highest_price, lowest_price, stop_distance,
                   trailing_active, last, results, previous_opportunities, interrupted>>

\* ------------------------------ open_short.py, trading/set_stop_and_tp.py
\* Everything the two one-shot order scripts leave alone.
OrderScriptUnchanged ==
    UNCHANGED <<script, side, stop_type, entry, initial_stop, min_trail_distance_pct,
                initial_contracts, tp1_hit, trailing_started, env_file, journal_file, trades,
                clock, last_alert_time, telegram,
                credentials,
                checked, stop_set, stop_price, highest_price, lowest_price,
                stop_distance, trailing_active, last, results, previous_opportunities,
                   interrupted>>

\* open_short_position: what it sends and prints.  Every exception (a refused
\* fetch_balance, a refused market order) ends in the outer handler, which
\* prints it; a failed stop or take profit is printed with the price to set by hand.
open_short_position(c, bal, response, entry_ok, sl_ok, tp_ok) ==
    IF ~Authenticated(c) \/ bal = "error"
    THEN [orders |-> <<>>, out |-> {"error_printed"}, confirmed |-> FALSE]
    ELSE IF bal = "low"
    THEN [orders |-> <<>>, out |-> {"insufficient_balance"}, confirmed |-> FALSE]
    ELSE IF response # "yes"
    THEN [orders |-> <<>>, out |-> {"trade_cancelled"}, confirmed |-> FALSE]
    ELSE IF ~entry_ok
    THEN [orders |-> <<Order("entry", FALSE)>>, out |-> {"error_printed"}, confirmed |-> TRUE]
    ELSE [orders |-> <<Order("entry", TRUE), Order("stop", sl_ok), Order("tp", tp_ok)>>,
          out |-> {"position_opened"}
                  \cup (IF sl_ok /\ tp_ok THEN {} ELSE {"order_failed", "act_manually"}),
          confirmed |-> TRUE]

\* python open_short.py
OpenShort ==
    /\ script = "open_short" /\ pc = "start"
    /\ pc' = "done"
    /\ \E bal \in {"ok", "low", "error"}, response \in {"yes", "no"},
          entry_ok \in BOOLEAN, sl_ok \in BOOLEAN, tp_ok \in BOOLEAN :
         LET r == open_short_position(credentials, bal, response, entry_ok, sl_ok, tp_ok)
         IN  /\ orders' = orders \o r.orders
             /\ out' = out \cup r.out
             /\ confirmed' = r.confirmed
    /\ OrderScriptUnchanged

\* set_sl_tp: what it sends and prints.  pf is what fetch_positions gave; the
\* function reads nothing from the operator.
set_sl_tp(pf, sl_ok, tp_ok) ==
    CASE pf = "error" -> [orders |-> <<>>, out |-> {"error_printed"}]
      [] pf = "none" -> [orders |-> <<>>, out |-> {"no_position"}]
      [] OTHER -> [orders |-> <<Order("stop", sl_ok), Order("tp", tp_ok)>>,
                   out |-> (IF sl_ok THEN {"stop_placed"} ELSE {"order_failed", "act_manually"})
                           \cup (IF tp_ok THEN {"tp_placed"} ELSE {"order_failed", "act_manually"})]

\* python trading/set_stop_and_tp.py
SetSlTp ==
    /\ script = "set_stop_and_tp" /\ pc = "start"
    /\ pc' = "done"
    /\ \E pf \in PosFetches, sl_ok \in BOOLEAN, tp_ok \in BOOLEAN :
         LET r == set_sl_tp(pf, sl_ok, tp_ok)
         IN  /\ orders' = orders \o r.orders
             /\ out' = out \cup r.out
    /\ UNCHANGED confirmed
    /\ OrderScriptUnchanged

\* --------------------------------------------- the monitoring scripts
\* Everything a monitoring loop leaves alone.
MonitorUnchanged ==
    UNCHANGED <<script, side, stop_type, entry, initial_stop, min_trail_distance_pct,
                initial_contracts, tp1_hit, trailing_started, env_file, journal_file, trades,
                telegram,
                credentials, checked,
                stop_set, stop_price, highest_price, lowest_price, stop_distance,
                trailing_active, confirmed, orders>>

\* universal_monitor.main, the "while True" that follows a chosen position.
\* fetch_positions prints a failed request and returns [], get_market_data prints
\* a failed fetch and returns None.
UniversalMonitorPoll ==
    /\ script = "universal_monitor" /\ pc = "monitor"
    /\ \/ \E pf \in {"none", "error"} :
             /\ pc' = "done"
             /\ out' = out \cup {"position_closed"}
                           \cup (IF pf = "error" THEN {"fetch_error"} ELSE {})
             /\ last' = Observed("none", pf = "error", 0, FALSE, FALSE)
       \/ \E market_ok \in BOOLEAN :
             /\ pc' = "monitor"
             /\ out' = out \cup (IF market_ok THEN {"displayed"} ELSE {"fetch_error"})
             /\ last' = Observed("pos", ~market_ok, 0, FALSE, FALSE)
    /\ UNCHANGED <<results, previous_opportunities, interrupted, clock, last_alert_time>>
    /\ MonitorUnchanged

\* universal_monitor.main, the "while True" that analyses a chosen coin.
UniversalAnalysisPoll ==
    /\ script = "universal_monitor" /\ pc = "analysis"
    /\ \E market_ok \in BOOLEAN :
         /\ pc' = "analysis"
         /\ out' = out \cup (IF market_ok THEN {"displayed"} ELSE {"fetch_error"})
         /\ last' = Observed("unpolled", ~market_ok, 0, FALSE, FALSE)
    /\ UNCHANGED <<results, previous_opportunities, interrupted, clock, last_alert_time>>
    /\ MonitorUnchanged

\* opportunity_watcher: what scan_market makes of one coin.  "nodata": the fetch
\* failed (get_market_data printed it and returned None); "high": long_score or
\* short_score is 70 or more; "low": neither is.
WatchCoins == {"BTC", "ETH"}
ScanOutcomes == {"nodata", "low", "high"}

\* scan_market: the coins that got a result
scan_market(scan) == {c \in WatchCoins : scan[c] # "nodata"}

\* main: current_long_opps | current_short_opps
current_opportunities(scan) == {c \in WatchCoins : scan[c] = "high"}

\* display_dashboard: max(results, ...) raises ValueError on an empty list
display_dashboard(res) == IF res = {} THEN "ValueError" ELSE "shown"

\* main with "new_opportunities = current_opportunities"
NewOpportunitiesAll(current, previous) == current

\* main: new_opportunities = current_opportunities - previous_opportunities
new_opportunities(current, previous) == current \ previous

\* One iteration of opportunity_watcher.main's "while True".
WatcherScan ==
    /\ script = "opportunity_watcher" /\ pc = "loop"
    /\ \E scan \in [WatchCoins -> ScanOutcomes] :
         LET new == new_opportunities(current_opportunities(scan), previous_opportunities)
             failed == \E c \in WatchCoins : scan[c] = "nodata"
             shown == display_dashboard(scan_market(scan))
         IN  /\ results' = scan_market(scan)
             /\ previous_opportunities' = current_opportunities(scan)
             /\ pc' = IF shown = "ValueError" THEN "crashed" ELSE "loop"
             /\ out' = out \cup (IF failed THEN {"fetch_error"} ELSE {})
                           \cup (IF new # {} THEN {"alert"} ELSE {})
                           \cup (IF shown = "ValueError" THEN {"traceback"} ELSE {"displayed"})
             /\ last' = [fetch_error |-> failed, alerted |-> new # {},
                         new |-> new, high |-> current_opportunities(scan), hit |-> FALSE]
    /\ UNCHANGED <<interrupted, clock, last_alert_time>>
    /\ MonitorUnchanged

\* monitor_position: when the suggestions were last shown, -1 for never
ShownAt(l) == IF l = NoPoll THEN -1 ELSE l.shown_at

\* monitor_position: last_alert_time is assigned inside "if telegram and
\* suggestion_text"; every suggestion action adds a line to suggestion_text
AlertTime(shown, with_telegram, current_time, before) ==
    IF shown /\ with_telegram THEN current_time ELSE before

\* One iteration of enhanced_position_manager.monitor_position's "while True";
\* initial_stop is its stop_loss argument.  fetch_ticker and fetch_ohlcv are
\* called with no handler but the one for KeyboardInterrupt.  The iteration
\* comes elapsed hundreds of seconds after the one before; suggestions is
\* whether suggest_position_adjustments returned any.
MonitorPositionPoll ==
    /\ script = "enhanced_position_manager" /\ pc = "loop"
    /\ \/ /\ pc' = "crashed"
          /\ out' = out \cup {"traceback"}
          /\ last' = Observed(last.pos, TRUE, last.price, FALSE, FALSE)
          /\ UNCHANGED <<clock, last_alert_time>>
       \/ \E price \in Prices, elapsed \in {1, 4}, suggestions \in BOOLEAN :
             LET hit == StopHit(side, price, initial_stop)
                 current_time == clock + elapsed
                 shown == suggestions /\ (current_time - last_alert_time) > alert_cooldown
             IN  /\ current_time <= MaxClock
                 /\ clock' = current_time
                 /\ last_alert_time' = AlertTime(shown, telegram, current_time, last_alert_time)
                 /\ pc' = IF hit THEN "done" ELSE "loop"
                 /\ out' = out \cup {"displayed"}
                               \cup (IF shown THEN {"suggestions"} ELSE {})
                               \cup (IF hit THEN {"stop_loss_hit"} ELSE {})
                 /\ last' = [pos |-> "pos", fetch_error |-> FALSE, price |-> price,
                             hit |-> hit, closed |-> FALSE, time |-> current_time,
                             shown |-> shown,
                             shown_at |-> IF shown THEN current_time ELSE ShownAt(last)]
    /\ UNCHANGED <<results, previous_opportunities, interrupted>>
    /\ MonitorUnchanged

\* "except KeyboardInterrupt" of the monitoring loops.  universal_monitor prints
\* "Monitor stopped" or "Analysis stopped" and nothing else.  monitor_position prints
\* current_price and pnl_pct in the handler: before the first poll has assigned
\* them this raises NameError.  The watcher prints its summary from `results',
\* which is unbound (NameError) during the first scan.
MonitorInterrupt ==
    /\ script \in {"universal_monitor", "opportunity_watcher", "enhanced_position_manager"}
    /\ pc \in {"loop", "monitor", "analysis"}
    /\ LET unbound == /\ script \in {"opportunity_watcher", "enhanced_position_manager"}
                      /\ last = NoPoll
       IN  /\ pc' = IF unbound THEN "crashed" ELSE "done"
           /\ out' = out \cup {"cancelled_by_user"}
                         \cup (CASE unbound -> {"traceback"}
                                 [] script = "universal_monitor" -> {}
                                 [] OTHER -> {"final_status"})
    /\ interrupted' = TRUE
    /\ UNCHANGED <<results, previous_opportunities, last, clock, last_alert_time>>
    /\ MonitorUnchanged

\* ------------------------------------------------------------ all scripts
TrailingScripts == {"trailing_stop", "smart_trailing_stop", "dynamic_trailing_stop", "auto_trailing_stop"}
StopLoops == {"trailing_stop", "smart_trailing_stop", "dynamic_trailing_stop"}
MonitorScripts == {"universal_monitor", "opportunity_watcher", "enhanced_position_manager"}
Scripts ==
    TrailingScripts \cup MonitorScripts
        \cup {"auto_trailing_manager", "order_manager", "open_long", "trader",
              "open_short", "set_stop_and_tp"}

\* "except KeyboardInterrupt" around each loop: a message, and the script ends.
Interrupt ==
    /\ script \in TrailingScripts \cup {"auto_trailing_manager"} /\ pc = "loop"
    /\ pc' = "done"
    /\ out' = out \cup {"cancelled_by_user"}
    /\ interrupted' = TRUE
    /\ UNCHANGED <<stop_set, stop_price, highest_price, lowest_price, stop_distance,
                   trailing_active, orders, last>>
    /\ ScriptUnchanged

\* The state when a script is launched.  The constructors of AutoTrailingStop and
\* AutoTrailingManager have run: current_stop = initial_stop, highest_price =
\* lowest_price = entry_price, tp1_hit = trailing_started = False.
Init ==
    /\ script \in Scripts
    /\ side \in (IF script \in TrailingScripts \cup {"enhanced_position_manager"}
                 THEN Sides ELSE {"LONG"})
    /\ stop_type \in (IF script = "trailing_stop" THEN {"ATR", "PERCENT"} ELSE {"ATR"})
    /\ min_trail_distance_pct \in (IF script = "dynamic_trailing_stop" THEN {3, 300} ELSE {3})
    /\ entry \in (IF script \in {"trailing_stop", "auto_trailing_stop"} THEN Prices ELSE {100})
    /\ initial_stop \in (IF script \in {"auto_trailing_stop", "enhanced_position_manager"}
                         THEN Prices ELSE {0})
    /\ initial_contracts \in (IF script = "auto_trailing_manager" THEN 1..MaxContracts ELSE {0})
    /\ env_file \in (IF script \in {"trader", "open_long"} THEN BOOLEAN ELSE {TRUE})
    /\ journal_file = NoFile /\ trades = <<>>
    /\ clock = alert_cooldown + 1 /\ last_alert_time = 0
    /\ telegram \in (IF script = "enhanced_position_manager" THEN BOOLEAN ELSE {FALSE})
    /\ credentials \in (IF script \in {"trader", "open_long"} THEN Credentials
                        ELSE {RealCredentials})
    /\ checked = {}
    /\ pc \in (CASE script \in {"auto_trailing_stop", "auto_trailing_manager",
                                 "opportunity_watcher", "enhanced_position_manager"} -> {"loop"}
                 [] script = "universal_monitor" -> {"monitor", "analysis"}
                 [] script = "trader" -> {"menu"}
                 [] OTHER -> {"start"})
    /\ stop_set = (script = "auto_trailing_stop")
    /\ stop_price = initial_stop
    /\ highest_price = (IF script = "auto_trailing_stop" THEN entry ELSE 0)
    /\ lowest_price = (IF script = "auto_trailing_stop" THEN entry ELSE 0)
    /\ stop_distance = 0
    /\ trailing_active = FALSE
    /\ tp1_hit = FALSE
    /\ trailing_started = FALSE
    /\ results = {}
    /\ previous_opportunities = {}
    /\ confirmed = FALSE
    /\ interrupted = FALSE
    /\ orders = <<>>
    /\ out = {}
    /\ last = NoPoll

Next ==
    \/ TrailingStopStart
    \/ TrailingStopPoll
    \/ SmartStart
    \/ SmartPoll
    \/ DynamicStart
    \/ DynamicPoll
    \/ AutoPoll
    \/ ManagerPoll
    \/ SetStopsAndTps
    \/ OpenLong
    \/ TraderMenu
    \/ OpenShort
    \/ SetSlTp
    \/ UniversalMonitorPoll
    \/ UniversalAnalysisPoll
    \/ WatcherScan
    \/ MonitorPositionPoll
    \/ MonitorInterrupt
    \/ TrailingStopInterruptedInAtr
    \/ Interrupt

Spec == Init /\ [][Next]_vars

\* ------------------------------------------------------ the pure functions
\* A second specification calls one pure function per behaviour: Init draws the
\* arguments into `last', the function's action adds what it returned.
CalcUnchanged ==
    UNCHANGED <<script, side, stop_type, min_trail_distance_pct, entry, initial_stop, stop_set,
                stop_price, highest_price, lowest_price, stop_distance, trailing_active,
                initial_contracts, tp1_hit, trailing_started, env_file, journal_file, trades,
                clock, last_alert_time, telegram,
                credentials, checked,
                results, previous_opportunities, confirmed, interrupted, orders, out>>

\* The indicator values calculate_smart_stop_distance is called with: each one on
\* both sides of every threshold the function compares it with.
SmartArguments ==
    [price : {200}, atr : {100}, adx : {15, 25, 35}, rsi : {25, 35, 50, 65, 75},
     macd_hist : {-10, 0, 10}, stoch_k : {10, 50, 90}, vwap : {100, 300},
     obv_slope : {-1, 0, 1}, trend : TrendValues]
SmartCalls ==
    {[fn |-> "calculate_smart_stop_distance", ind |-> i, side |-> sd] :
        i \in SmartArguments, sd \in Sides}

\* multiplier, reasons = calculate_smart_stop_distance(indicators, position, atr)
CallSmartStopDistance ==
    /\ script = "calc" /\ pc = "start" /\ last.fn = "calculate_smart_stop_distance"
    /\ pc' = "done"
    /\ last' = [fn |-> last.fn, ind |-> last.ind, side |-> last.side,
                unclamped |-> SmartUnclamped(last.ind, last.side),
                multiplier |-> calculate_smart_stop_distance(last.ind, last.side)]
    /\ CalcUnchanged

\* ---------------------------- small_account_manager.py, core/risk_manager.py
\* Prices of the take-profit calculators are in units of 0.000005, so that a
\* fourth decimal is 20 units and the products with 1.5 and 2.5 are whole.
TakeProfitPrices == {10 * k : k \in 1..8}
TakeProfitCalls ==
    {[fn |-> f, entry_price |-> e, stop_loss |-> st, side |-> sd] :
        f \in {"SmallAccountManager.calculate_take_profits",
               "RiskManager.calculate_take_profits"},
        e \in TakeProfitPrices, st \in TakeProfitPrices, sd \in Sides}

\* round(x, 4).  A value half way between two fourth decimals goes to either
\* neighbour, depending on the binary representation of the float: `up' says which.
Round4(x, up) ==
    LET r == x % 20
    IN  IF r = 0 THEN x
        ELSE IF r < 10 THEN x - r
        ELSE IF r > 10 THEN x + (20 - r)
        ELSE IF up THEN x + 10 ELSE x - 10

\* SmallAccountManager.calculate_take_profits: rr in tenths, prices rounded
SmallAccountTakeProfits(entry_price, stop_loss, sd, ups) ==
    LET risk == IF sd = "LONG" THEN entry_price - stop_loss ELSE stop_loss - entry_price
        rrs == <<25, 40, 60>>
        target(k) == IF sd = "LONG" THEN entry_price + (risk * rrs[k]) \div 10
                                    ELSE entry_price - (risk * rrs[k]) \div 10
    IN  [k \in 1..3 |-> [level |-> k, rr |-> rrs[k], price |-> Round4(target(k), ups[k])]]

\* RiskManager.calculate_take_profits with num_targets = 3: rr_ratio = i * 1.5
RiskManagerTakeProfits(entry_price, stop_loss, sd) ==
    LET risk_distance == IF sd = "LONG" THEN entry_price - stop_loss
                                        ELSE stop_loss - entry_price
        rr_ratio(i) == i * 15
        tp_price(i) == IF sd = "LONG" THEN entry_price + (risk_distance * rr_ratio(i)) \div 10
                                      ELSE entry_price - (risk_distance * rr_ratio(i)) \div 10
    IN  [i \in 1..3 |-> [level |-> i, rr |-> rr_ratio(i), price |-> tp_price(i)]]

CallSmallAccountTakeProfits ==
    /\ script = "calc" /\ pc = "start"
    /\ last.fn = "SmallAccountManager.calculate_take_profits"
    /\ pc' = "done"
    /\ \E ups \in [1..3 -> BOOLEAN] :
         last' = [fn |-> last.fn, entry_price |-> last.entry_price,
                  stop_loss |-> last.stop_loss, side |-> last.side,
                  targets |-> SmallAccountTakeProfits(last.entry_price, last.stop_loss,
                                                      last.side, ups)]
    /\ CalcUnchanged

CallRiskManagerTakeProfits ==
    /\ script = "calc" /\ pc = "start"
    /\ last.fn = "RiskManager.calculate_take_profits"
    /\ pc' = "done"
    /\ last' = [fn |-> last.fn, entry_price |-> last.entry_price,
                stop_loss |-> last.stop_loss, side |-> last.side,
                targets |-> RiskManagerTakeProfits(last.entry_price, last.stop_loss, last.side)]
    /\ CalcUnchanged

\* ------------------------- scripts/universal_monitor.py, find_opportunity.py
\* The market records the scoring functions are given: every value on each side
\* of every threshold it is compared with.  vol_ratio is in tenths; the band
\* pairs put the price in the middle of the bands, near the lower band, and on
\* flat bands (upper = lower).
Bands == {<<100, 300>>, <<190, 300>>, <<200, 200>>}
Markets ==
    [trend_4h : TrendValues, trend_1h : TrendValues, trend_15m : TrendValues,
     rsi_15m : {25, 40, 60, 75}, macd_hist_15m : {-1, 1}, stoch_k_15m : {10, 50, 90},
     vol_ratio : {5, 12, 20}, obv_slope : {-1, 1}, adx_15m : {15, 22, 30},
     price : {200}, bands : Bands, vwap_15m : {100, 300}]
ScoreCalls == {[fn |-> "calculate_signal_score", market |-> m] : m \in Markets}

TrendScore(m) ==
      (IF m.trend_4h = "UP" THEN 12 ELSE 0) + (IF m.trend_1h = "UP" THEN 10 ELSE 0)
    + (IF m.trend_15m = "UP" THEN 8 ELSE 0)
RsiScore(rsi) == IF 50 < rsi /\ rsi < 70 THEN 8 ELSE IF 30 < rsi /\ rsi <= 50 THEN 5 ELSE 0
VolumeRatioScore(vol_ratio) == IF vol_ratio > 15 THEN 12 ELSE IF vol_ratio > 10 THEN 8 ELSE 0
AdxScore(adx) == IF adx > 25 THEN 8 ELSE IF adx > 20 THEN 4 ELSE 0

\* bb_position = (price - lower) / (upper - lower) lies strictly between lo and hi
\* hundredths.  On flat bands the numpy division gives inf or nan and both
\* comparisons are false.
BbBetween(price, bands, lo, hi) ==
    LET width == bands[2] - bands[1]
    IN  /\ width # 0
        /\ lo * width < 100 * (price - bands[1])
        /\ 100 * (price - bands[1]) < hi * width

\* calculate_signal_score: "5. LEVEL PROXIMITY - VWAP (10 pts max)"
LevelScoreHeavy(m) == IF m.price > m.vwap_15m THEN 15 ELSE 0
LevelScore(m) == IF m.price > m.vwap_15m THEN 10 ELSE 0

\* universal_monitor.calculate_signal_score: the score it returns
calculate_signal_score(m) ==
    LET momentum_score == RsiScore(m.rsi_15m) + (IF m.macd_hist_15m > 0 THEN 9 ELSE 0)
                          + (IF 20 < m.stoch_k_15m /\ m.stoch_k_15m < 80 THEN 8 ELSE 0)
        volume_score == VolumeRatioScore(m.vol_ratio) + (IF m.obv_slope > 0 THEN 8 ELSE 0)
        volatility_score == AdxScore(m.adx_15m)
                            + (IF BbBetween(m.price, m.bands, 30, 70) THEN 7 ELSE 0)
    IN  TrendScore(m) + momentum_score + volume_score + volatility_score + LevelScore(m)

CallSignalScore ==
    /\ script = "calc" /\ pc = "start" /\ last.fn = "calculate_signal_score"
    /\ pc' = "done"
    /\ last' = [fn |-> last.fn, market |-> last.market,
                score |-> calculate_signal_score(last.market)]
    /\ CalcUnchanged

\* What the candles of one coin come to in quick_score_coin and analyze_coin.
\* above_emas: price > ema20_15m and price > ema50_15m.  fetched: the three
\* fetch_ohlcv calls (and fetch_ticker) went through.
Coins ==
    [fetched : BOOLEAN, trend_4h : TrendValues, trend_1h : TrendValues,
     trend_15m : TrendValues, rsi_15m : {25, 40, 60, 75}, macd_hist : {-1, 1},
     stoch_k : {10, 50, 90}, vol_ratio : {5, 12, 20}, obv_slope : {-1, 1},
     adx : {15, 22, 30}, price : {200}, bands : {<<100, 300>>, <<200, 200>>},
     above_emas : BOOLEAN]
QuickCoins == {c \in Coins : c.stoch_k = 50 /\ c.obv_slope = 1 /\ c.bands = <<100, 300>>}
CoinCalls ==
    {[fn |-> "analyze_coin", coin |-> c] : c \in Coins}
        \cup {[fn |-> "quick_score_coin", coin |-> c] : c \in QuickCoins}

\* universal_monitor.calculate_adx returns the tuple (adx, plus_di, minus_di), so
\* "calculate_adx(df_15m).iloc[-1]" in quick_score_coin raises AttributeError.
AdxIsSeries == FALSE

\* quick_score_coin: the points it adds up after the indicators
QuickScorePoints(c) ==
    TrendScore(c) + RsiScore(c.rsi_15m) + (IF c.macd_hist > 0 THEN 9 ELSE 0) + 4
    + VolumeRatioScore(c.vol_ratio) + 4 + AdxScore(c.adx) + 3
    + (IF c.above_emas THEN 10 ELSE 0)

\* quick_score_coin: "except Exception: return 0", else min(score, 100)
quick_score_coin(c) ==
    IF ~c.fetched \/ ~AdxIsSeries THEN 0 ELSE Min2(QuickScorePoints(c), 100)

\* find_opportunity.analyze_coin: the 'score' of the dict, or None on an exception
analyze_coin(c) ==
    IF ~c.fetched THEN [returned |-> "None", score |-> 0]
    ELSE [returned |-> "dict",
          score |-> TrendScore(c) + RsiScore(c.rsi_15m)
                    + (IF c.macd_hist > 0 THEN 9 ELSE 0)
                    + (IF 20 < c.stoch_k /\ c.stoch_k < 80 THEN 4
                       ELSE IF c.stoch_k < 20 THEN 6 ELSE 0)
                    + VolumeRatioScore(c.vol_ratio) + (IF c.obv_slope > 0 THEN 4 ELSE 0)
                    + AdxScore(c.adx) + (IF BbBetween(c.price, c.bands, 30, 70) THEN 3 ELSE 0)
                    + (IF c.above_emas THEN 10 ELSE 0)]

CallQuickScoreCoin ==
    /\ script = "calc" /\ pc = "start" /\ last.fn = "quick_score_coin"
    /\ pc' = "done"
    /\ last' = [fn |-> last.fn, coin |-> last.coin, returned |-> "int",
                score |-> quick_score_coin(last.coin)]
    /\ CalcUnchanged

CallAnalyzeCoin ==
    /\ script = "calc" /\ pc = "start" /\ last.fn = "analyze_coin"
    /\ pc' = "done"
    /\ last' = [fn |-> last.fn, coin |-> last.coin,
                returned |-> analyze_coin(last.coin).returned,
                score |-> analyze_coin(last.coin).score]
    /\ CalcUnchanged

\* The 'volume' column as the volume ratio sees it: bars candles were fetched,
\* window_sum is the sum of the last VolumePeriod volumes (their rolling mean is
\* window_sum / VolumePeriod, NaN with fewer than VolumePeriod bars), vol_current
\* is the last one.  Volumes are not negative, so vol_current <= window_sum.
VolumePeriod == 20
MaxVolume == 4
VolumeFrames ==
    {v \in [bars : {VolumePeriod - 1, VolumePeriod}, window_sum : 0..MaxVolume,
            vol_current : 0..MaxVolume] :
        v.bars >= VolumePeriod => v.vol_current <= v.window_sum}
VolumeCalls ==
    {[fn |-> f, df |-> v] : f \in {"calculate_volume_ratio", "get_market_data"},
                            v \in VolumeFrames}

\* vol_avg > 0, false for a NaN average as for a zero one
VolAvgPositive(df) == df.bars >= VolumePeriod /\ df.window_sum > 0

\* vol_current / vol_avg in tenths, rounded down
VolQuotient(df) == (10 * VolumePeriod * df.vol_current) \div df.window_sum

\* core.indicators.calculate_volume_ratio with "else 0.0"
VolumeRatioElseZero(df) == IF VolAvgPositive(df) THEN VolQuotient(df) ELSE 0

\* core.indicators.calculate_volume_ratio, in tenths
calculate_volume_ratio(df) == IF VolAvgPositive(df) THEN VolQuotient(df) ELSE 10

\* universal_monitor.get_market_data: market['vol_ratio'], in tenths
MarketVolRatio(df) == IF VolAvgPositive(df) THEN VolQuotient(df) ELSE 10

CallVolumeRatio ==
    /\ script = "calc" /\ pc = "start" /\ last.fn = "calculate_volume_ratio"
    /\ pc' = "done"
    /\ last' = [fn |-> last.fn, df |-> last.df, raised |-> FALSE,
                vol_ratio |-> calculate_volume_ratio(last.df),
                volume_points |-> VolumeRatioScore(calculate_volume_ratio(last.df))]
    /\ CalcUnchanged

\* get_market_data as far as vol_ratio, and the points calculate_signal_score
\* gives for it
CallMarketVolRatio ==
    /\ script = "calc" /\ pc = "start" /\ last.fn = "get_market_data"
    /\ pc' = "done"
    /\ last' = [fn |-> last.fn, df |-> last.df, raised |-> FALSE,
                vol_ratio |-> MarketVolRatio(last.df),
                volume_points |-> VolumeRatioScore(MarketVolRatio(last.df))]
    /\ CalcUnchanged

\* config.Config as Config.validate reads it: whether .env exists in the working
\* directory, the three credentials ("placeholder" is the variable's own
\* placeholder, 'your_api_key_here' and so on) and the numeric settings.
MaxLeverageSetting == 3
Configs ==
    [env_file : BOOLEAN, credentials : Credentials,
     DEFAULT_LEVERAGE : 0..(MaxLeverageSetting + 1),
     MAX_LEVERAGE : {MaxLeverageSetting - 1, MaxLeverageSetting},
     DEFAULT_RISK_PERCENT : {0, 1, 101}, MIN_POSITION_SIZE : {0, 10}]
ConfigCalls == {[fn |-> "Config.validate", config |-> c] : c \in Configs}

ErrorEntry(setting, problem) == [setting |-> setting, problem |-> problem]

\* Config.validate without the "elif ... == placeholder" branch
CredentialErrorsEmptyOnly(setting, value) ==
    IF value = "" THEN <<ErrorEntry(setting, "not set")>> ELSE <<>>

\* Config.validate: the "if not cls.X ... elif cls.X == placeholder" of one credential
CredentialErrors(setting, value) ==
    IF value = "" THEN <<ErrorEntry(setting, "not set")>>
    ELSE IF value = "placeholder" THEN <<ErrorEntry(setting, "placeholder")>>
    ELSE <<>>

\* Config.validate: the errors list
ValidateErrors(c) ==
      (IF ~c.env_file THEN <<ErrorEntry(".env", "not found")>> ELSE <<>>)
    \o CredentialErrors("KUCOIN_API_KEY", c.credentials.key)
    \o CredentialErrors("KUCOIN_API_SECRET", c.credentials.secret)
    \o CredentialErrors("KUCOIN_API_PASSPHRASE", c.credentials.passphrase)
    \o (IF c.DEFAULT_LEVERAGE < 1 \/ c.DEFAULT_LEVERAGE > c.MAX_LEVERAGE
        THEN <<ErrorEntry("DEFAULT_LEVERAGE", "range")>> ELSE <<>>)
    \o (IF c.DEFAULT_RISK_PERCENT <= 0 \/ c.DEFAULT_RISK_PERCENT > 100
        THEN <<ErrorEntry("DEFAULT_RISK_PERCENT", "range")>> ELSE <<>>)
    \o (IF c.MIN_POSITION_SIZE <= 0
        THEN <<ErrorEntry("MIN_POSITION_SIZE", "range")>> ELSE <<>>)

\* Config.validate
validate(c) == [is_valid |-> Len(ValidateErrors(c)) = 0, errors |-> ValidateErrors(c)]

CallValidate ==
    /\ script = "calc" /\ pc = "start" /\ last.fn = "Config.validate"
    /\ pc' = "done"
    /\ last' = [fn |-> last.fn, config |-> last.config,
                is_valid |-> validate(last.config).is_valid,
                errors |-> validate(last.config).errors]
    /\ CalcUnchanged

\* The AutoTrailingManager objects start_trailing_stop is called on: the stop on
\* the loss side of the entry and TP1 on the profit side.
Managers ==
    {m \in [side : Sides, entry : Prices, initial_stop : Prices, tp1_price : Prices] :
        IF m.side = "LONG" THEN m.initial_stop < m.entry /\ m.entry < m.tp1_price
                           ELSE m.initial_stop > m.entry /\ m.entry > m.tp1_price}
ManagerCalls == {[fn |-> "start_trailing_stop", manager |-> m] : m \in Managers}

\* AutoTrailingManager.__init__: trail_activation_r=1.0, in tenths
manager_trail_activation_r == 10

\* start_trailing_stop: the arguments of the auto_trailing_stop.py command,
\* "symbol side entry stop activation_r trail_atr"; the stop is str(self.tp1_price)
start_trailing_stop_cmd(m) ==
    [side |-> m.side, entry_price |-> m.entry, initial_stop |-> m.tp1_price,
     trail_activation_r |-> manager_trail_activation_r]

\* AutoTrailingStop.__init__ on those arguments: risk and activation_price
AutoTrailingStopInit(a) ==
    LET risk == InitialRisk(a.side, a.entry_price, a.initial_stop)
        reach == (risk * a.trail_activation_r) \div 10
    IN  [side |-> a.side, entry |-> a.entry_price, initial_stop |-> a.initial_stop,
         risk |-> risk,
         activation_price |-> IF a.side = "LONG" THEN a.entry_price + reach
                                                 ELSE a.entry_price - reach]

CallStartTrailingStop ==
    /\ script = "calc" /\ pc = "start" /\ last.fn = "start_trailing_stop"
    /\ pc' = "done"
    /\ last' = [fn |-> last.fn, manager |-> last.manager,
                launched |-> AutoTrailingStopInit(start_trailing_stop_cmd(last.manager))]
    /\ CalcUnchanged

\* The calls of SmallAccountManager(balance).calculate_position_size(entry_price,
\* stop_loss, leverage): balance and prices in USDT.
SizeCalls ==
    {[fn |-> "calculate_position_size", balance |-> b, entry_price |-> e, stop_loss |-> st,
      leverage |-> lv] :
        b \in {5, 100, 10000}, e \in {2, 10, 100}, st \in {1, 9, 10, 11, 95, 105},
        lv \in {1, 10, 20}}

\* calculate_position_size: "if stop_loss > entry_price ... else ..."
SizeStopDistance(entry_price, stop_loss) ==
    IF stop_loss > entry_price THEN stop_loss - entry_price ELSE entry_price - stop_loss

\* calculate_position_size: the contracts, min(max_contracts, risk_contracts) raised
\* to 1.  max_contracts = int(balance * 0.80 * leverage / entry_price),
\* risk_contracts = int(balance * 0.03 / stop_distance), which divides by zero
\* when stop_loss equals entry_price.
calculate_position_size(balance, entry_price, stop_loss, leverage) ==
    LET distance == SizeStopDistance(entry_price, stop_loss)
        max_contracts == (8 * balance * leverage) \div (10 * entry_price)
        risk_contracts == (3 * balance) \div (100 * distance)
    IN  IF distance = 0 THEN [raised |-> TRUE, contracts |-> 0]
        ELSE [raised |-> FALSE, contracts |-> Max2(Min2(max_contracts, risk_contracts), 1)]

CallPositionSize ==
    /\ script = "calc" /\ pc = "start" /\ last.fn = "calculate_position_size"
    /\ pc' = "done"
    /\ LET r == calculate_position_size(last.balance, last.entry_price, last.stop_loss,
                                        last.leverage)
       IN  last' = [fn |-> last.fn, balance |-> last.balance, entry_price |-> last.entry_price,
                    stop_loss |-> last.stop_loss, leverage |-> last.leverage,
                    raised |-> r.raised, contracts |-> r.contracts]
    /\ CalcUnchanged

\* core.api.get_market_data: fetch_ohlcv(symbol, tf, limit=100)
candle_limit == 100

\* What a core.indicators function returns for a frame of `bars' candles: a tuple
\* of series, or one series with a value per candle.
SeriesOf(bars) == [kind |-> "series", len |-> bars]
TupleOf(n) == [kind |-> "tuple", len |-> n]
IndicatorReturn(f, bars) ==
    CASE f = "calculate_macd" -> TupleOf(3)
      [] f = "calculate_stochastic_rsi" -> TupleOf(2)
      [] f = "calculate_bollinger_bands" -> TupleOf(3)
      [] OTHER -> SeriesOf(bars)

\* "a, b, c = value" followed by "a.iloc[-1]": the unpacking needs exactly n
\* items, and the items of a series are numbers, which have no .iloc
UnpacksToSeries(value, n) == value.len = n /\ value.kind = "tuple"

\* The tuple unpackings in get_market_data's loop body
Unpackings ==
    {<<"calculate_macd", 3>>, <<"calculate_stochastic_rsi", 2>>, <<"calculate_adx", 3>>,
     <<"calculate_bollinger_bands", 3>>}

\* core.api.get_market_data: the dict, or None after "Error fetching market data"
core_get_market_data(ticker_ok, candles_ok, bars) ==
    IF ~ticker_ok \/ ~candles_ok THEN "None"
    ELSE IF \A u \in Unpackings : UnpacksToSeries(IndicatorReturn(u[1], bars), u[2])
         THEN "dict" ELSE "None"

MarketDataCalls ==
    {[fn |-> "core.api.get_market_data", ticker_ok |-> t, candles_ok |-> c, bars |-> b] :
        t \in BOOLEAN, c \in BOOLEAN, b \in {3, 50, candle_limit}}

CallCoreMarketData ==
    /\ script = "calc" /\ pc = "start" /\ last.fn = "core.api.get_market_data"
    /\ pc' = "done"
    /\ last' = [fn |-> last.fn, ticker_ok |-> last.ticker_ok, candles_ok |-> last.candles_ok,
                bars |-> last.bars,
                returned |-> core_get_market_data(last.ticker_ok, last.candles_ok, last.bars)]
    /\ CalcUnchanged

\* The calls of DynamicTrailingStop.calculate_dynamic_stop(df, position, current_price)
DynamicStopCalls ==
    {[fn |-> "calculate_dynamic_stop", side |-> sd, current_price |-> p, reading |-> r] :
        sd \in Sides, p \in Prices, r \in DynamicReadings}

CallDynamicStop ==
    /\ script = "calc" /\ pc = "start" /\ last.fn = "calculate_dynamic_stop"
    /\ pc' = "done"
    /\ last' = [fn |-> last.fn, side |-> last.side, current_price |-> last.current_price,
                reading |-> last.reading,
                suggested_stop |-> calculate_dynamic_stop(last.side, last.current_price,
                                                          last.reading)]
    /\ CalcUnchanged

CalcCalls ==
    SmartCalls \cup TakeProfitCalls \cup ScoreCalls \cup CoinCalls \cup VolumeCalls
        \cup ConfigCalls \cup ManagerCalls \cup SizeCalls
        \cup MarketDataCalls \cup DynamicStopCalls

CalcInit ==
    /\ script = "calc" /\ pc = "start"
    /\ last \in CalcCalls
    /\ side = "LONG" /\ stop_type = "ATR" /\ min_trail_distance_pct = 3
    /\ entry = 100 /\ initial_stop = 0 /\ initial_contracts = 0
    /\ env_file = TRUE /\ credentials = RealCredentials /\ checked = {}
    /\ journal_file = NoFile /\ trades = <<>>
    /\ clock = alert_cooldown + 1 /\ last_alert_time = 0 /\ telegram = FALSE
    /\ stop_set = FALSE /\ stop_price = 0 /\ highest_price = 0 /\ lowest_price = 0
    /\ stop_distance = 0 /\ trailing_active = FALSE /\ tp1_hit = FALSE
    /\ trailing_started = FALSE /\ orders = <<>> /\ out = {}
    /\ results = {} /\ previous_opportunities = {} /\ confirmed = FALSE
    /\ interrupted = FALSE

CalcNext ==
    \/ CallSmartStopDistance
    \/ CallSmallAccountTakeProfits
    \/ CallRiskManagerTakeProfits
    \/ CallSignalScore
    \/ CallQuickScoreCoin
    \/ CallAnalyzeCoin
    \/ CallVolumeRatio
    \/ CallMarketVolRatio
    \/ CallValidate
    \/ CallStartTrailingStop
    \/ CallPositionSize
    \/ CallCoreMarketData
    \/ CallDynamicStop

CalcSpec == CalcInit /\ [][CalcNext]_vars

\* ------------------------------------------------------ trade_journal.py
\* The TradeJournal objects that share one journal file, and how many trades the
\* model logs.
Instances == {1, 2}
MaxTrades == 4

\* An entry of the journal: the id log_trade gave it and the trade it records
\* (trade 0 is one the file held before, trade n is the n-th one logged).
JournalEntry(id, trade) == [id |-> id, trade |-> trade]

JournalUnchanged ==
    UNCHANGED <<script, side, stop_type, min_trail_distance_pct, entry, initial_stop, stop_set,
                stop_price, highest_price, lowest_price, stop_distance, trailing_active,
                initial_contracts, tp1_hit, trailing_started, env_file, credentials, checked,
                clock, last_alert_time, telegram,
                results, previous_opportunities, confirmed, interrupted, orders, out>>

\* load_journal: self.trades becomes what the file holds; a missing file gives []
\* and is created by save_journal
load_journal(file) == IF file.exists THEN file.entries ELSE <<>>

\* save_journal: the file is rewritten from self.trades
save_journal(list) == [exists |-> TRUE, entries |-> list]

\* TradeJournal.__init__
JournalConstruct ==
    /\ script = "trade_journal" /\ pc = "loop"
    /\ \E i \in Instances :
         /\ ~trades[i].made
         /\ trades' = [trades EXCEPT ![i] = [made |-> TRUE, list |-> load_journal(journal_file)]]
         /\ journal_file' = IF journal_file.exists THEN journal_file
                                                  ELSE save_journal(load_journal(journal_file))
    /\ UNCHANGED <<pc, last>>
    /\ JournalUnchanged

\* log_trade: the entry gets id len(self.trades) + 1, is appended to self.trades,
\* and save_journal rewrites the file from self.trades.  last.logged counts the
\* trades logged so far.
JournalLogTrade ==
    /\ script = "trade_journal" /\ pc = "loop"
    /\ last.logged < MaxTrades
    /\ \E i \in Instances :
         /\ trades[i].made
         /\ LET e == JournalEntry(Len(trades[i].list) + 1, last.logged + 1)
            IN  /\ trades' = [trades EXCEPT ![i].list = Append(trades[i].list, e)]
                /\ journal_file' = save_journal(Append(trades[i].list, e))
                /\ last' = [fn |-> "log_trade", instance |-> i, logged |-> last.logged + 1]
    /\ UNCHANGED pc
    /\ JournalUnchanged

\* The journal file before the first TradeJournal is made: none, an empty list,
\* or a list with one entry.
JournalInit ==
    /\ script = "trade_journal" /\ pc = "loop"
    /\ journal_file \in {NoFile, save_journal(<<>>), save_journal(<<JournalEntry(1, 0)>>)}
    /\ trades = [i \in Instances |-> [made |-> FALSE, list |-> <<>>]]
    /\ last = [fn |-> "none", instance |-> 0, logged |-> 0]
    /\ clock = alert_cooldown + 1 /\ last_alert_time = 0 /\ telegram = FALSE
    /\ side = "LONG" /\ stop_type = "ATR" /\ min_trail_distance_pct = 3
    /\ entry = 100 /\ initial_stop = 0 /\ initial_contracts = 0
    /\ env_file = TRUE /\ credentials = RealCredentials /\ checked = {}
    /\ stop_set = FALSE /\ stop_price = 0 /\ highest_price = 0 /\ lowest_price = 0
    /\ stop_distance = 0 /\ trailing_active = FALSE /\ tp1_hit = FALSE
    /\ trailing_started = FALSE /\ orders = <<>> /\ out = {}
    /\ results = {} /\ previous_opportunities = {} /\ confirmed = FALSE
    /\ interrupted = FALSE

JournalNext ==
    \/ JournalConstruct
    \/ JournalLogTrade

JournalSpec == JournalInit /\ [][JournalNext]_vars

\* ==================================================================== claims

\* C1: in the basic, smart and dynamic loops the stop, once set, never moves
\* backward: for a LONG it never decreases from one step to the next, for a
\* SHORT it never increases.
C1_StopNeverMovesBackward ==
    [][(script \in StopLoops /\ stop_set /\ stop_set')
         => /\ side = "LONG" => stop_price' >= stop_price
            /\ side = "SHORT" => stop_price' <= stop_price]_vars

\* A LONG percent trail whose stop stands closer to the high than the initial
\* percentage: the stop has been raised after a new high.
C1_Witness ==
    /\ script = "trailing_stop" /\ side = "LONG" /\ stop_type = "PERCENT" /\ stop_set
    /\ stop_price > highest_price - (highest_price * percent_trail) \div 100

\* C2 as stated: in every trailing-stop loop, AutoTrailingStop.monitor included,
\* a poll that finds the price at or beyond the stop sends a market close order
\* in that poll.
C2_EveryLoopClosesOnHit ==
    (script \in TrailingScripts /\ last.hit)
        => (last.closed /\ orders # <<>> /\ orders[Len(orders)].kind = "close")

\* C2 amended: in the basic, smart and dynamic loops a poll that finds the price
\* at or beyond the stop sends a market close order in that poll, before the
\* loop stops; AutoTrailingStop.monitor sends none.
C2_StopLoopsCloseOnHit ==
    /\ (script \in StopLoops /\ last.hit)
          => (last.closed /\ orders # <<>> /\ orders[Len(orders)].kind = "close")
    /\ (script = "auto_trailing_stop" /\ last.hit) => (~last.closed /\ pc = "done")

\* A stop hit in one of the three closing loops, the close order sent, the loop over.
C2_Witness ==
    /\ script \in StopLoops /\ last.hit /\ last.closed /\ pc = "done"
    /\ orders[Len(orders)].kind = "close"

\* C3: a poll in which a fetch failed, and in which no stop was hit, leaves the
\* loop running with the failure logged (until the user interrupts it).
C3_FetchErrorNeverEndsLoop ==
    (script \in TrailingScripts /\ last.fetch_error /\ ~last.hit /\ "cancelled_by_user" \notin out)
        => (pc = "loop" /\ "fetch_error" \in out)

\* C4: a close order that failed is the last order the loop sends in that run.
C4_FailedCloseNeverRetried ==
    script \in TrailingScripts
        => \A i \in 1..Len(orders) :
              (orders[i].kind = "close" /\ ~orders[i].ok) => i = Len(orders)

\* C5: whenever placing a closing order, a stop loss or a take profit failed (for a
\* stop loss of the order manager: its alternative format failed as well), the
\* failure was reported together with the instruction to act manually.
C5_FailureReportedWithManualInstruction ==
    LET failed == \E i \in 1..Len(orders) :
                     /\ ~orders[i].ok
                     /\ \/ orders[i].kind \in {"close", "tp", "stop_alt"}
                        \/ /\ orders[i].kind = "stop"
                           /\ (i = Len(orders) \/ orders[i + 1].kind # "stop_alt")
    IN  failed => ("order_failed" \in out /\ "act_manually" \in out)

\* C6: no order is sent unless the credentials were checked for presence and for
\* placeholder values, and with a missing or placeholder credential the trader
\* never gets past startup into a trading script.
C6_NoTradingWithoutValidation ==
    script \in {"trader", "open_long"}
        => /\ orders # <<>> => {"presence", "placeholder"} \subseteq checked
           /\ credentials # RealCredentials => "open_long_started" \notin out

\* C7: AutoTrailingStop is waiting until a poll sees the price at or beyond
\* entry +/- 1.5 x initial risk; while waiting the stop is the initial stop; once
\* trailing is active it stays active.
C7_ActivationThenActiveForever ==
    [][script = "auto_trailing_stop"
         => /\ trailing_active => trailing_active'
            /\ (~trailing_active /\ trailing_active')
                  => /\ last'.pos = "pos"
                     /\ IF side = "LONG"
                        THEN 10 * (last'.price - entry) >= 15 * (entry - initial_stop)
                        ELSE 10 * (entry - last'.price) >= 15 * (initial_stop - entry)
            /\ ~trailing_active'
                  => /\ stop_price' = initial_stop
                     /\ last'.pos = "pos"
                           => IF side = "LONG"
                              THEN 10 * (last'.price - entry) < 15 * (entry - initial_stop)
                              ELSE 10 * (entry - last'.price) < 15 * (initial_stop - entry)]_vars

\* Trailing is active although the price last seen is back on the near side of
\* the activation price, and the stop has left the initial stop.
C7_Witness ==
    /\ script = "auto_trailing_stop" /\ side = "LONG" /\ trailing_active
    /\ last.pos = "pos" /\ stop_price # initial_stop
    /\ 10 * (last.price - entry) < 15 * (entry - initial_stop)

\* C8: AutoTrailingStop never sends an order.
C8_AutoTrailingStopPlacesNoOrders ==
    script = "auto_trailing_stop" => orders = <<>>

\* AutoTrailingStop saw its stop hit and stopped.
C8_Witness ==
    script = "auto_trailing_stop" /\ last.hit /\ pc = "done" /\ "consider_manual_exit" \in out

\* C9: when a poll finds no position the loop ends in that poll and sends no
\* order, then or afterwards.
C9_NoPositionExitsWithoutOrder ==
    [][(script \in TrailingScripts /\ last'.pos = "none")
         => (pc' = "done" /\ orders' = orders)]_vars

\* A loop with a stop in place found the position gone.
C9_Witness ==
    /\ script \in TrailingScripts /\ stop_set /\ last.pos = "none" /\ pc = "done"
    /\ "position_closed" \in out

\* C10: a poll of AutoTrailingManager launches the trailing stop only when it
\* read a position that is reduced below its initial size with contracts remaining.
C10_TrailingOnlyAfterTp1 ==
    (script = "auto_trailing_manager" /\ last.pos = "pos" /\ last.launched)
        => (last.pos2 = "pos" /\ last.contracts > 0 /\ last.contracts < initial_contracts)

\* C11: the stop AutoTrailingStop.update_stop returns never decreases from one
\* call to the next for a LONG and never increases for a SHORT, while the highest
\* price seen only rises and the lowest only falls.
C11_UpdateStopMonotone ==
    [][script = "auto_trailing_stop"
         => /\ side = "LONG" => (stop_price' >= stop_price /\ highest_price' >= highest_price)
            /\ side = "SHORT" => (stop_price' <= stop_price /\ lowest_price' <= lowest_price)]_vars

\* A SHORT whose trailing is active, with a new low seen and the stop brought
\* down from the initial stop.
C11_Witness ==
    /\ script = "auto_trailing_stop" /\ side = "SHORT" /\ trailing_active
    /\ lowest_price < entry /\ stop_price < initial_stop

\* C12: the multiplier calculate_smart_stop_distance returns lies in [0.8, 3.5]
\* (8..35 tenths) for every combination of indicator values and both sides.
C12_MultiplierClamped ==
    (script = "calc" /\ pc = "done" /\ last.fn = "calculate_smart_stop_distance")
        => (last.multiplier >= 8 /\ last.multiplier <= 35)

\* A call whose warnings drive the sum below 0.8 and which returned 0.8.
C12_Witness ==
    /\ script = "calc" /\ pc = "done" /\ last.fn = "calculate_smart_stop_distance"
    /\ last.unclamped < 8 /\ last.multiplier = 8

\* C13 as stated: before clamping the multiplier is 2.0, plus 0.5 when ADX > 30,
\* minus the deduction of each warning that fires against the side; nothing else.
C13_BasePlusStrongAdxMinusWarnings ==
    (script = "calc" /\ pc = "done" /\ last.fn = "calculate_smart_stop_distance")
        => LET i == last.ind
               long == (IF i.rsi > 70 THEN 5 ELSE IF i.rsi > 60 THEN 3 ELSE 0)
                     + (IF i.macd_hist < 0 THEN 4
                        ELSE IF i.macd_hist > -5 /\ i.macd_hist < 5 THEN 2 ELSE 0)
                     + (IF i.stoch_k > 80 THEN 3 ELSE 0) + (IF i.price < i.vwap THEN 4 ELSE 0)
                     + (IF i.obv_slope < 0 THEN 3 ELSE 0) + (IF i.trend = "DOWN" THEN 6 ELSE 0)
               short == (IF i.rsi < 30 THEN 5 ELSE IF i.rsi < 40 THEN 3 ELSE 0)
                     + (IF i.macd_hist > 0 THEN 4
                        ELSE IF i.macd_hist > -5 /\ i.macd_hist < 5 THEN 2 ELSE 0)
                     + (IF i.stoch_k < 20 THEN 3 ELSE 0) + (IF i.price > i.vwap THEN 4 ELSE 0)
                     + (IF i.obv_slope > 0 THEN 3 ELSE 0) + (IF i.trend = "UP" THEN 6 ELSE 0)
           IN  last.unclamped = 20 + (IF i.adx > 30 THEN 5 ELSE 0)
                                   - (IF last.side = "LONG" THEN long ELSE short)

\* C13 amended: before clamping the multiplier is 2.0, plus 0.5 when ADX > 30 or
\* minus 0.5 when ADX < 20, minus the deduction of each warning that fires
\* against the side; nothing else.
C13_BasePlusAdxTermMinusWarnings ==
    (script = "calc" /\ pc = "done" /\ last.fn = "calculate_smart_stop_distance")
        => LET i == last.ind
               adx_term == IF i.adx > 30 THEN 5 ELSE IF i.adx < 20 THEN 0 - 5 ELSE 0
               long == (IF i.rsi > 70 THEN 5 ELSE IF i.rsi > 60 THEN 3 ELSE 0)
                     + (IF i.macd_hist < 0 THEN 4
                        ELSE IF i.macd_hist > -5 /\ i.macd_hist < 5 THEN 2 ELSE 0)
                     + (IF i.stoch_k > 80 THEN 3 ELSE 0) + (IF i.price < i.vwap THEN 4 ELSE 0)
                     + (IF i.obv_slope < 0 THEN 3 ELSE 0) + (IF i.trend = "DOWN" THEN 6 ELSE 0)
               short == (IF i.rsi < 30 THEN 5 ELSE IF i.rsi < 40 THEN 3 ELSE 0)
                     + (IF i.macd_hist > 0 THEN 4
                        ELSE IF i.macd_hist > -5 /\ i.macd_hist < 5 THEN 2 ELSE 0)
                     + (IF i.stoch_k < 20 THEN 3 ELSE 0) + (IF i.price > i.vwap THEN 4 ELSE 0)
                     + (IF i.obv_slope > 0 THEN 3 ELSE 0) + (IF i.trend = "UP" THEN 6 ELSE 0)
           IN  last.unclamped = 20 + adx_term - (IF last.side = "LONG" THEN long ELSE short)

\* A SHORT in a weak trend (ADX < 20) with an oversold RSI: the two deductions add.
C13_Witness ==
    /\ script = "calc" /\ pc = "done" /\ last.fn = "calculate_smart_stop_distance"
    /\ last.side = "SHORT" /\ last.ind.adx < 20 /\ last.ind.rsi < 30
    /\ last.unclamped <= 10

\* C14: either calculate_take_profits returns three targets whose distance from
\* the entry is 2.5, 4.0 and 6.0 times the distance from the stop to the entry,
\* on the profit side (the ratio is stated as a product, so a zero risk passes).
C14_TargetsAtRMultiples ==
    (script = "calc" /\ pc = "done"
       /\ last.fn \in {"SmallAccountManager.calculate_take_profits",
                       "RiskManager.calculate_take_profits"})
        => LET rr == <<25, 40, 60>>
           IN  \A k \in 1..3 :
                  IF last.side = "LONG"
                  THEN 10 * (last.targets[k].price - last.entry_price)
                          = rr[k] * (last.entry_price - last.stop_loss)
                  ELSE 10 * (last.entry_price - last.targets[k].price)
                          = rr[k] * (last.stop_loss - last.entry_price)

\* C15: every score calculate_signal_score, quick_score_coin or analyze_coin
\* produces is an integer from 0 to 100.
C15_ScoreInRange ==
    (script = "calc" /\ pc = "done"
       /\ last.fn \in {"calculate_signal_score", "quick_score_coin", "analyze_coin"}
       /\ (last.fn = "analyze_coin" => last.returned = "dict"))
        => last.score \in 0..100

\* The market record on which every component of calculate_signal_score gives
\* its full points.
C15_Witness ==
    /\ script = "calc" /\ pc = "done" /\ last.fn = "calculate_signal_score"
    /\ last.score = 100 /\ last.market.price > last.market.vwap_15m

\* C16: in the monitoring and scanning loops (universal_monitor, opportunity_watcher,
\* enhanced_position_manager) a cycle in which a request to the exchange failed
\* leaves the loop running: the script has neither exited nor crashed.
C16_MonitorLoopsSurviveFetchError ==
    (/\ script \in MonitorScripts
     /\ last.fetch_error
     /\ "cancelled_by_user" \notin out)
        => pc \in {"loop", "monitor", "analysis"}

\* C17: when the 20-bar average volume is zero, calculate_volume_ratio and
\* get_market_data raise nothing and give the ratio 1.0, and the volume points
\* of the score are the defined value for a ratio of 1.0 (none).
C17_ZeroAverageGivesNeutralRatio ==
    (/\ pc = "done"
     /\ last.fn \in {"calculate_volume_ratio", "get_market_data"}
     /\ last.df.bars >= VolumePeriod
     /\ last.df.window_sum = 0)
        => /\ ~last.raised
           /\ last.vol_ratio = 10
           /\ last.volume_points = 0

C17_Witness ==
    /\ pc = "done"
    /\ last.fn = "calculate_volume_ratio"
    /\ last.df.bars >= VolumePeriod
    /\ last.df.window_sum = 0
    /\ last.vol_ratio = 10

\* C18: Config.validate returns (False, errors) with an error naming the cause when
\* .env is missing, when one of the three credentials is empty or still its
\* placeholder, or when DEFAULT_LEVERAGE is outside [1, MAX_LEVERAGE]; it returns
\* (True, []) when the file exists, the credentials are real and the numeric
\* settings are in range.
C18_ValidateReportsEveryCause ==
    (pc = "done" /\ last.fn = "Config.validate") =>
        LET c == last.config
            Named(setting) == \E i \in 1..Len(last.errors) : last.errors[i].setting = setting
            Bad(value) == value \in {"", "placeholder"}
            Fails(setting) == ~last.is_valid /\ Named(setting)
        IN  /\ ~c.env_file => Fails(".env")
            /\ Bad(c.credentials.key) => Fails("KUCOIN_API_KEY")
            /\ Bad(c.credentials.secret) => Fails("KUCOIN_API_SECRET")
            /\ Bad(c.credentials.passphrase) => Fails("KUCOIN_API_PASSPHRASE")
            /\ (c.DEFAULT_LEVERAGE < 1 \/ c.DEFAULT_LEVERAGE > c.MAX_LEVERAGE)
                  => Fails("DEFAULT_LEVERAGE")
            /\ (/\ c.env_file
                /\ c.credentials = RealCredentials
                /\ 1 <= c.DEFAULT_LEVERAGE /\ c.DEFAULT_LEVERAGE <= c.MAX_LEVERAGE
                /\ 0 < c.DEFAULT_RISK_PERCENT /\ c.DEFAULT_RISK_PERCENT <= 100
                /\ c.MIN_POSITION_SIZE > 0)
                  => (last.is_valid /\ last.errors = <<>>)

C18_Witness ==
    /\ pc = "done" /\ last.fn = "Config.validate"
    /\ last.config.env_file
    /\ last.config.credentials.secret = "placeholder"
    /\ last.config.credentials.key = "real"
    /\ last.config.DEFAULT_LEVERAGE = 1
    /\ ~last.is_valid
    /\ Len(last.errors) = 1

\* C19: in the scripts that open a position or place stop-loss and take-profit
\* orders (open_long, the trader menu, open_short, set_stop_and_tp, order_manager)
\* an order has gone to the exchange only after the operator confirmed.
C19_NoOrderWithoutConfirmation ==
    (/\ script \in {"open_long", "trader", "open_short", "set_stop_and_tp", "order_manager"}
     /\ orders # <<>>)
        => confirmed

\* C20: when the operator interrupts the basic trailing-stop loop, monitor_position
\* or AutoTrailingManager.monitor, the script ends there with its stop message and
\* final status printed, no traceback, and the order list as it was.
C20_InterruptEndsLoopWithoutOrders ==
    [][(/\ script \in {"trailing_stop", "enhanced_position_manager", "auto_trailing_manager"}
        /\ ~interrupted /\ interrupted')
          => /\ pc' = "done"
             /\ "cancelled_by_user" \in out'
             /\ "traceback" \notin out'
             /\ orders' = orders]_vars

\* C21: after log_trade returns, the journal file holds every trade logged to it
\* so far (and the ones it held before), and no two entries share an id, also
\* when several TradeJournal instances log to the same file.
C21_JournalKeepsEveryTrade ==
    (script = "trade_journal" /\ last.fn = "log_trade") =>
        /\ \A k \in 1..last.logged :
              \E n \in 1..Len(journal_file.entries) : journal_file.entries[n].trade = k
        /\ \A m, n \in 1..Len(journal_file.entries) :
              journal_file.entries[m].id = journal_file.entries[n].id => m = n

\* C22: in the basic loop and in AutoTrailingStop, a poll whose ATR fetch failed
\* leaves the stop where it was, and the stop counts as hit in that poll only if
\* the price had reached the stop as it stood before the poll.
C22_AtrFailureLeavesStopAlone ==
    [][(/\ script \in {"trailing_stop", "auto_trailing_stop"}
        /\ pc = "loop"
        /\ ~interrupted'
        /\ last'.pos = "pos" /\ last'.fetch_error /\ last'.price # 0)
          => /\ stop_price' = stop_price
             /\ last'.hit => StopHit(side, last'.price, stop_price)
             /\ last'.closed => StopHit(side, last'.price, stop_price)]_vars

\* C23: once open_long_position has opened a position and printed that the
\* auto-trailing manager is started, the manager process it launched is in its
\* monitoring loop.
C23_StartedManagerMonitors ==
    (script \in {"open_long", "trader"} /\ "manager_started" \in out)
        => "manager_monitoring" \in out

\* C24: the AutoTrailingStop that AutoTrailingManager.start_trailing_stop launches
\* has positive initial risk: its initial stop is on the loss side of the entry
\* and its activation price on the profit side.
C24_LaunchedStopHasPositiveRisk ==
    (pc = "done" /\ last.fn = "start_trailing_stop") =>
        LET a == last.launched
        IN  /\ a.risk > 0
            /\ IF a.side = "LONG" THEN a.initial_stop < a.entry /\ a.activation_price > a.entry
                                  ELSE a.initial_stop > a.entry /\ a.activation_price < a.entry

\* C25: calculate_position_size returns a contract count whose risk (contracts
\* times stop distance) is at most 3% of the balance and whose margin (contracts
\* times entry price over leverage) is at most 80% of the balance.
C25_SizeWithinRiskAndMargin ==
    (pc = "done" /\ last.fn = "calculate_position_size") =>
        /\ ~last.raised
        /\ 100 * last.contracts * SizeStopDistance(last.entry_price, last.stop_loss)
              <= 3 * last.balance
        /\ 10 * last.contracts * last.entry_price <= 8 * last.balance * last.leverage

\* C26: when the ticker and the candles were fetched and the window is full,
\* core.api.get_market_data returns the dict of indicators, not None.
C26_MarketDataReturnedOnSuccess ==
    (/\ pc = "done" /\ last.fn = "core.api.get_market_data"
     /\ last.ticker_ok /\ last.candles_ok /\ last.bars = candle_limit)
        => last.returned = "dict"

\* C27: a scan of the opportunity watcher alerts exactly when some coin scores 70
\* or more in it and did not in the scan just before; a coin that stays at 70 or
\* more over consecutive scans does not alert again.
C27_AlertExactlyOnNewOpportunity ==
    [][(/\ script = "opportunity_watcher" /\ pc = "loop"
        /\ ~interrupted'
        /\ last' # NoPoll)
          => LET before == IF last = NoPoll THEN {} ELSE last.high
             IN  last'.alerted <=> (\E c \in last'.high : c \notin before)]_vars

C27_Witness ==
    /\ script = "opportunity_watcher"
    /\ last # NoPoll
    /\ last.high = {"BTC"}
    /\ ~last.alerted
    /\ "alert" \in out

\* C28: calculate_dynamic_stop returns a stop strictly above the current price
\* for a SHORT and strictly below it for a LONG.
C28_DynamicStopStrictlyBeyondPrice ==
    (pc = "done" /\ last.fn = "calculate_dynamic_stop") =>
        IF last.side = "SHORT" THEN last.suggested_stop > last.current_price
                               ELSE last.suggested_stop < last.current_price

\* C29: monitor_position shows suggestions at most once per cooldown: a poll that
\* shows them comes more than 300 seconds after the poll that showed them last,
\* with Telegram alerts enabled or not.
C29_SuggestionsOncePerCooldown ==
    [][(/\ script = "enhanced_position_manager" /\ pc = "loop"
        /\ ~interrupted' /\ pc' # "crashed"
        /\ clock' # clock
        /\ last'.shown /\ ShownAt(last) >= 0)
          => last'.time - ShownAt(last) > alert_cooldown]_vars

=============================================================================
